---------------------------- MODULE Spec2Model ----------------------------
(***************************************************************************)
(* Model of the asynchronous file-mutation pipeline of go-file-explorer:   *)
(* the path sandbox validator, the storage wrapper, the conflict resolver, *)
(* the trash store, the synchronous operations engine and the job          *)
(* orchestrator.                                                            *)
(*                                                                         *)
(* Strings the code inspects character by character (client paths) are     *)
(* sequences of one-character tokens.  API paths handled by the services   *)
(* are sequences of path segments; "/" is the empty sequence.              *)
(***************************************************************************)
EXTENDS Integers, Sequences, FiniteSets, TLC

VARIABLES
    \* ---- path validator / storage wrapper (one request at a time)
    pvPc,        \* "start" | "resolved" | "called"
    pvIn,        \* the client-supplied path, a sequence of characters
    pvOut,       \* result of ResolvePath: [err |-> ..., path |-> ...]
    pvTouched,   \* absolute paths handed to the os package by Storage calls
    \* ---- filesystem, trash area and trash repository
    fs,          \* the tree below the storage root
    trashArea,   \* the trash directory: trash name -> tree
    records,     \* table trash_records: id -> record
    nextUuid,    \* next fresh uuid
    clock,       \* the wall clock, read by time.Now
    \* ---- the synchronous calls
    last,        \* the last call made and what it returned
    opCount,     \* number of calls made so far
    tally,       \* per path: successful soft-deletes and restores so far
    batch,       \* the last batch call of the operations engine and its outcome
    \* ---- the job orchestrator
    jobs,        \* the in-memory job table: job id -> job
    requests,    \* the stored requests: job id -> request
    queue,       \* the queue channel: job ids, oldest first
    worker,      \* the worker goroutine: where it stands, with which job
    creating,    \* CreateOperationJob calls in flight: the ids inserted, not yet sent
    channels,    \* subscriber channels: channel id -> [job, buf, closed]
    subscribers, \* job id -> the channels registered for it, in order
    ghost,       \* history kept for the properties, no data of the program
    \* ---- calls of the conflict resolver in flight
    resolving    \* call id -> where the call stands and what it has read

pvVars == <<pvPc, pvIn, pvOut, pvTouched>>

engVars == <<fs, trashArea, records, nextUuid, clock>>

callVars == <<last, opCount, tally>>

jobVars == <<jobs, requests, queue, worker, creating, channels, subscribers, ghost>>

vars == <<pvVars, engVars, callVars, batch, jobVars, resolving>>

-----------------------------------------------------------------------------
(* Bounds of the model *)

\* longest client path fed to ResolvePath
MaxLen == 4

\* number of synchronous calls in one run of the trash store
MaxTrashOps == 5

\* the longest path, in elements, the system takes (PATH_MAX, scaled down)
PathMax == 4

\* the last index the rename policy tries: the 10000 of the code scaled
\* down, so that a directory can hold every candidate name
RenameLimit == 2

\* longest list of inputs of one batch call
MaxBatch == 2

\* number of batch calls in one run of the operations engine
MaxOps == 1

\* number of CreateOperationJob calls in one run of the orchestrator
MaxJobs == 2

\* number of Subscribe calls in one run of the orchestrator
MaxSubs == 1

\* slots of a subscriber channel: the 64 of the code scaled down, so that
\* a buffer nobody reads fills up
SubBufCap == 1

\* slots of the job queue
QueueCap == 256

-----------------------------------------------------------------------------
(* Characters.  "sp" is a blank (white space, not a control character),    *)
(* "lf" a line feed (white space and control character), "nul" the NUL     *)
(* byte (control character, not white space), "bs" a backslash.            *)

Chars == {"a", ".", "/", "bs", "sp", "lf", "nul"}

WhiteSpace == {"sp", "lf"}

ControlChars == {"lf", "nul"}

\* the storage root, an absolute path (PathValidator.rootAbs)
rootAbs == <<"/", "r">>

Separator == "/"

RECURSIVE TrimLeft(_)
TrimLeft(s) ==
    IF s # <<>> /\ Head(s) \in WhiteSpace THEN TrimLeft(Tail(s)) ELSE s

RECURSIVE TrimRight(_)
TrimRight(s) ==
    IF s # <<>> /\ s[Len(s)] \in WhiteSpace
    THEN TrimRight(SubSeq(s, 1, Len(s) - 1))
    ELSE s

\* strings.TrimSpace
TrimSpace(s) == TrimRight(TrimLeft(s))

\* strings.ReplaceAll(s, `\`, "/")
ReplaceBackslashes(s) == [i \in 1..Len(s) |-> IF s[i] = "bs" THEN "/" ELSE s[i]]

\* strings.HasPrefix
HasPrefix(s, p) == Len(p) <= Len(s) /\ SubSeq(s, 1, Len(p)) = p

\* strings.TrimPrefix(s, "/")
TrimSlashPrefix(s) ==
    IF s # <<>> /\ Head(s) = "/" THEN Tail(s) ELSE s

\* strings.Split(s, "/"): the segments between the slashes, empty ones kept
RECURSIVE SplitFrom(_, _, _)
SplitFrom(s, i, cur) ==
    IF i > Len(s) THEN <<cur>>
    ELSE IF s[i] = "/" THEN <<cur>> \o SplitFrom(s, i + 1, <<>>)
    ELSE SplitFrom(s, i + 1, Append(cur, s[i]))

Split(s) == SplitFrom(s, 1, <<>>)

DotDot == <<".", ".">>

Dot == <<".">>

\* the element loop of filepath.Clean (Unix): empty and "." elements are
\* dropped, ".." removes the element before it, is dropped at the root of a
\* rooted path and is kept at the front of a relative one
RECURSIVE CleanElems(_, _, _)
CleanElems(elems, out, rooted) ==
    IF elems = <<>> THEN out
    ELSE LET e == Head(elems)
             rest == Tail(elems)
         IN  IF e = <<>> \/ e = Dot THEN CleanElems(rest, out, rooted)
             ELSE IF e = DotDot
                  THEN IF out # <<>> /\ out[Len(out)] # DotDot
                       THEN CleanElems(rest, SubSeq(out, 1, Len(out) - 1), rooted)
                       ELSE IF rooted THEN CleanElems(rest, out, rooted)
                       ELSE CleanElems(rest, Append(out, e), rooted)
                  ELSE CleanElems(rest, Append(out, e), rooted)

RECURSIVE JoinElems(_)
JoinElems(elems) ==
    IF elems = <<>> THEN <<>>
    ELSE IF Len(elems) = 1 THEN Head(elems)
    ELSE Head(elems) \o <<"/">> \o JoinElems(Tail(elems))

\* filepath.Clean
Clean(s) ==
    IF s = <<>> THEN Dot
    ELSE LET rooted == Head(s) = "/"
             body == JoinElems(CleanElems(Split(s), <<>>, rooted))
         IN  IF rooted THEN <<"/">> \o body
             ELSE IF body = <<>> THEN Dot ELSE body

\* filepath.Join(a, b): the non-empty elements joined by a separator, cleaned
Join(a, b) ==
    IF a = <<>> /\ b = <<>> THEN <<>>
    ELSE IF a = <<>> THEN Clean(b)
    ELSE IF b = <<>> THEN Clean(a)
    ELSE Clean(a \o <<"/">> \o b)

\* filepath.Dir
RECURSIVE LastSlash(_, _)
LastSlash(s, i) == IF i = 0 \/ s[i] = "/" THEN i ELSE LastSlash(s, i - 1)

Dir(s) == Clean(SubSeq(s, 1, LastSlash(s, Len(s))))

\* hasControlCharacters, together with the NUL test next to it
hasControlCharacters(s) == \E i \in 1..Len(s) : s[i] \in ControlChars

\* isWithinRoot
isWithinRoot(root, candidate) ==
    \/ candidate = root
    \/ HasPrefix(candidate, root \o <<Separator>>)

NoErr == "none"

ResolvePathNoTraversalCheck(clientPath) ==
    LET normalized == ReplaceBackslashes(TrimSpace(clientPath))
    IN  IF normalized = <<>> \/ normalized = <<"/">>
        THEN [err |-> NoErr, path |-> rootAbs]
        ELSE IF hasControlCharacters(normalized)
        THEN [err |-> "INVALID_PATH", path |-> <<>>]
        ELSE LET cleanRel == Clean(TrimSlashPrefix(normalized))
                 resolved == rootAbs \o <<"/">> \o TrimSlashPrefix(normalized)
             IN  IF cleanRel = Dot
                 THEN [err |-> NoErr, path |-> rootAbs]
                 ELSE [err |-> NoErr, path |-> Clean(resolved)]

\* PathValidator.ResolvePath
ResolvePath(clientPath) ==
    LET normalized == ReplaceBackslashes(TrimSpace(clientPath))
    IN  IF normalized = <<>> \/ normalized = <<"/">>
        THEN [err |-> NoErr, path |-> rootAbs]
        ELSE IF hasControlCharacters(normalized)
        THEN [err |-> "INVALID_PATH", path |-> <<>>]
        ELSE IF \E i \in 1..Len(Split(normalized)) : Split(normalized)[i] = DotDot
        THEN [err |-> "PATH_TRAVERSAL", path |-> <<>>]
        ELSE LET cleanRel == Clean(TrimSlashPrefix(normalized))
                 resolvedAbs == Join(rootAbs, cleanRel)
             IN  IF cleanRel = Dot
                 THEN [err |-> NoErr, path |-> rootAbs]
                 ELSE IF ~isWithinRoot(rootAbs, resolvedAbs)
                 THEN [err |-> "PATH_TRAVERSAL", path |-> <<>>]
                 ELSE [err |-> NoErr, path |-> resolvedAbs]

-----------------------------------------------------------------------------
(* The filesystem below the storage root, seen through API paths.  An API   *)
(* path is a sequence of elements, "/" the empty sequence; an element is a  *)
(* sequence of tokens: <<"a">> is "a", <<"a", "1">> is "a (1)", and a last   *)
(* token of ExtTokens is the extension filepath.Ext finds.  The filesystem  *)
(* is a function from the existing paths to "dir" or to a file's content.   *)

ExtTokens == {".t"}

RootPath == <<>>

\* an element no path may hold: it stands for one with a control character
CtrlElem == <<"nul">>

Exists(f, p) == p \in DOMAIN f

IsDirAt(f, p) == p \in DOMAIN f /\ f[p] = "dir"

Prefixes(p) == {SubSeq(p, 1, i) : i \in 0..Len(p)}

\* p is q or lies below q
IsUnder(p, q) == Len(q) <= Len(p) /\ SubSeq(p, 1, Len(q)) = q

\* filepath.Dir and filepath.Base of a cleaned API path
Parent(p) == IF p = <<>> THEN <<>> ELSE SubSeq(p, 1, Len(p) - 1)

Base(p) == IF p = <<>> THEN <<>> ELSE p[Len(p)]

\* normalizeAPIPath: filepath.Clean of the path, made rooted
normalizeAPIPath(p) == CleanElems(p, <<>>, TRUE)

\* Storage.Resolve on an API path: the validator's verdict on its elements
ResolveErr(p) ==
    IF \E i \in 1..Len(p) : p[i] = CtrlElem THEN "INVALID_PATH"
    ELSE IF \E i \in 1..Len(p) : p[i] = DotDot THEN "PATH_TRAVERSAL"
    ELSE NoErr

\* os.MkdirAll: fails when a component is a file, else creates what is missing
OsMkdirAll(f, p) ==
    IF \E q \in Prefixes(p) : q \in DOMAIN f /\ f[q] # "dir"
    THEN [ok |-> FALSE, fs |-> f]
    ELSE [ok |-> TRUE,
          fs |-> [q \in DOMAIN f \cup Prefixes(p) |->
                     IF q \in DOMAIN f THEN f[q] ELSE "dir"]]

\* os.RemoveAll: the path and everything below it; a missing path is no error
OsRemoveAll(f, p) == [q \in {r \in DOMAIN f : ~IsUnder(r, p)} |-> f[q]]

\* the tree at p, keyed by the paths relative to p
SubTree(f, p) ==
    [r \in {SubSeq(q, Len(p) + 1, Len(q)) : q \in {x \in DOMAIN f : IsUnder(x, p)}}
        |-> f[p \o r]]

\* f with tree t planted at p
Graft(f, p, t) ==
    [q \in DOMAIN f \cup {p \o r : r \in DOMAIN t} |->
        IF IsUnder(q, p) /\ SubSeq(q, Len(p) + 1, Len(q)) \in DOMAIN t
        THEN t[SubSeq(q, Len(p) + 1, Len(q))]
        ELSE f[q]]

HasChildren(f, p) == \E q \in DOMAIN f : IsUnder(q, p) /\ q # p

\* os.Rename (rename(2)): the source must exist and the target's parent be a
\* directory; a directory cannot move below itself; an existing target is
\* replaced only by a node of its kind, a directory only when empty
OsRename(f, old, new) ==
    IF old \notin DOMAIN f \/ ~IsDirAt(f, Parent(new)) \/ new = <<>> \/ old = <<>>
    THEN [ok |-> FALSE, fs |-> f]
    ELSE IF old = new THEN [ok |-> TRUE, fs |-> f]
    ELSE IF IsUnder(new, old) \/ IsUnder(old, new)
    THEN [ok |-> FALSE, fs |-> f]
    ELSE IF /\ new \in DOMAIN f
            /\ \/ (f[old] = "dir") # (f[new] = "dir")
               \/ HasChildren(f, new)
    THEN [ok |-> FALSE, fs |-> f]
    ELSE [ok |-> TRUE,
          fs |-> Graft(OsRemoveAll(OsRemoveAll(f, new), old), new, SubTree(f, old))]

\* Storage.Rename: resolve both paths, create the target's parent, rename
StorageRenameFs(f, old, new) ==
    IF ResolveErr(old) # NoErr THEN [err |-> ResolveErr(old), fs |-> f]
    ELSE IF ResolveErr(new) # NoErr THEN [err |-> ResolveErr(new), fs |-> f]
    ELSE LET made == OsMkdirAll(f, Parent(new))
         IN  IF ~made.ok THEN [err |-> "prepare destination", fs |-> f]
             ELSE LET moved == OsRename(made.fs, old, new)
                  IN  IF moved.ok THEN [err |-> NoErr, fs |-> moved.fs]
                      ELSE [err |-> "rename", fs |-> made.fs]

\* Storage.MkdirAll
StorageMkdirAllFs(f, p) ==
    IF ResolveErr(p) # NoErr THEN [err |-> ResolveErr(p), fs |-> f]
    ELSE LET made == OsMkdirAll(f, p)
         IN  IF made.ok THEN [err |-> NoErr, fs |-> made.fs]
             ELSE [err |-> "mkdir", fs |-> f]

\* Storage.OpenForWrite followed by a write of content c and Close: the
\* parent is created, the file created or truncated
StorageWriteFile(f, p, c) ==
    IF ResolveErr(p) # NoErr THEN [err |-> ResolveErr(p), fs |-> f]
    ELSE LET made == OsMkdirAll(f, Parent(p))
         IN  IF ~made.ok THEN [err |-> "create parent directory", fs |-> f]
             ELSE IF IsDirAt(made.fs, p) THEN [err |-> "is a directory", fs |-> made.fs]
             ELSE [err |-> NoErr,
                   fs |-> [q \in DOMAIN made.fs \cup {p} |->
                              IF q = p THEN c ELSE made.fs[q]]]

-----------------------------------------------------------------------------
(* The trash store.  The trash area is a directory of its own: a function   *)
(* from trash names to the tree moved there.  The repository is the table   *)
(* trash_records, a function from record ids to records; restoredAt = 0 is  *)
(* a NULL restored_at.  uuid is the next fresh identifier, clock the time.  *)
(* A state st is [fs, trash, records, uuid, clock].                         *)

NotRestored == 0

ZeroActor == ""

\* movePath from the storage root into the trash area: the parent exists,
\* the name is fresh, so the rename (or its copy-and-remove fallback across
\* devices) ends with the tree under the trash name and gone from the root
MoveToTrash(st, p, name) ==
    [st EXCEPT !.trash = [n \in DOMAIN st.trash \cup {name} |->
                             IF n = name THEN SubTree(st.fs, p) ELSE st.trash[n]],
               !.fs = OsRemoveAll(st.fs, p)]

\* movePath from the trash area back to a path below the storage root:
\* MkdirAll of the parent, then the rename, which needs the trash entry to
\* exist and the target not to be in its way
MoveFromTrash(st, name, p) ==
    LET made == OsMkdirAll(st.fs, Parent(p))
    IN  IF ~made.ok THEN [ok |-> FALSE, st |-> st]
        ELSE IF name \notin DOMAIN st.trash
        THEN [ok |-> FALSE, st |-> [st EXCEPT !.fs = made.fs]]
        ELSE IF /\ p \in DOMAIN made.fs
                /\ \/ (st.trash[name][<<>>] = "dir") # (made.fs[p] = "dir")
                   \/ HasChildren(made.fs, p)
        THEN [ok |-> FALSE, st |-> [st EXCEPT !.fs = made.fs]]
        ELSE [ok |-> TRUE,
              st |-> [st EXCEPT
                        !.fs = Graft(OsRemoveAll(made.fs, p), p, st.trash[name]),
                        !.trash = [n \in DOMAIN st.trash \ {name} |-> st.trash[n]]]]

\* TrashRepository.Create
RepoCreate(st, rec) ==
    [st EXCEPT !.records = [i \in DOMAIN st.records \cup {rec.id} |->
                               IF i = rec.id THEN rec ELSE st.records[i]]]

NoRecord == [id |-> 0]

SoftDeleteNoRollback(st, apiPath, actor, repoFails) ==
    IF ResolveErr(apiPath) # NoErr
    THEN [err |-> ResolveErr(apiPath), record |-> NoRecord, st |-> st]
    ELSE IF ~Exists(st.fs, apiPath)
    THEN [err |-> "NOT_EXIST", record |-> NoRecord, st |-> st]
    ELSE LET rec == [id |-> st.uuid,
                     originalPath |-> apiPath,
                     trashName |-> <<st.uuid + 1, Base(apiPath)>>,
                     deletedAt |-> st.clock,
                     deletedBy |-> actor,
                     restoredAt |-> NotRestored,
                     restoredBy |-> ZeroActor]
             fresh == [st EXCEPT !.uuid = @ + 2, !.clock = @ + 1]
             moved == MoveToTrash(fresh, apiPath, rec.trashName)
         IN  IF repoFails
             THEN [err |-> "create trash record", record |-> NoRecord, st |-> moved]
             ELSE [err |-> NoErr, record |-> rec, st |-> RepoCreate(moved, rec)]

\* TrashService.SoftDelete; repoFails: the INSERT of the record fails
SoftDelete(st, apiPath, actor, repoFails) ==
    IF ResolveErr(apiPath) # NoErr
    THEN [err |-> ResolveErr(apiPath), record |-> NoRecord, st |-> st]
    ELSE IF ~Exists(st.fs, apiPath)
    THEN [err |-> "NOT_EXIST", record |-> NoRecord, st |-> st]
    ELSE LET rec == [id |-> st.uuid,
                     originalPath |-> apiPath,
                     trashName |-> <<st.uuid + 1, Base(apiPath)>>,
                     deletedAt |-> st.clock,
                     deletedBy |-> actor,
                     restoredAt |-> NotRestored,
                     restoredBy |-> ZeroActor]
             fresh == [st EXCEPT !.uuid = @ + 2, !.clock = @ + 1]
             moved == MoveToTrash(fresh, apiPath, rec.trashName)
         IN  IF repoFails
             THEN [err |-> "create trash record", record |-> NoRecord,
                   st |-> MoveFromTrash(moved, rec.trashName, apiPath).st]
             ELSE [err |-> NoErr, record |-> rec, st |-> RepoCreate(moved, rec)]

\* the rows of trash_records with restored_at IS NULL
ActiveIds(recs) == {i \in DOMAIN recs : recs[i].restoredAt = NotRestored}

FindOldestByPath(recs, apiPath) ==
    LET ids == {i \in ActiveIds(recs) : recs[i].originalPath = apiPath}
    IN  IF ids = {} THEN NoRecord
        ELSE recs[CHOOSE i \in ids : \A j \in ids : recs[j].deletedAt >= recs[i].deletedAt]

\* TrashRepository.FindLatestByPath: ORDER BY deleted_at DESC LIMIT 1
FindLatestByPath(recs, apiPath) ==
    LET ids == {i \in ActiveIds(recs) : recs[i].originalPath = apiPath}
    IN  IF ids = {} THEN NoRecord
        ELSE recs[CHOOSE i \in ids : \A j \in ids : recs[j].deletedAt <= recs[i].deletedAt]

\* TrashRepository.MarkRestored: UPDATE ... WHERE id = $1 AND restored_at IS NULL
MarkRestored(recs, id, actor, now) ==
    IF id \notin ActiveIds(recs)
    THEN [ok |-> FALSE, records |-> recs]
    ELSE [ok |-> TRUE,
          records |-> [recs EXCEPT ![id].restoredAt = now, ![id].restoredBy = actor]]

RestoreLatestNoConflictCheck(st, apiPath, actor, repoFails) ==
    LET record == FindLatestByPath(st.records, apiPath)
    IN  IF record = NoRecord
        THEN [err |-> "NOT_FOUND", record |-> NoRecord, st |-> st]
        ELSE LET moved == MoveFromTrash(st, record.trashName, apiPath)
                 now == st.clock
                 marked == MarkRestored(moved.st.records, record.id, actor, now)
             IN  IF ~moved.ok
                 THEN [err |-> "restore", record |-> NoRecord, st |-> moved.st]
                 ELSE [err |-> NoErr,
                       record |-> [record EXCEPT !.restoredAt = now, !.restoredBy = actor],
                       st |-> [moved.st EXCEPT !.records = marked.records, !.clock = now + 1]]

RestoreLatestNoRollback(st, apiPath, actor, repoFails) ==
    LET record == FindLatestByPath(st.records, apiPath)
    IN  IF record = NoRecord
        THEN [err |-> "NOT_FOUND", record |-> NoRecord, st |-> st]
        ELSE IF ResolveErr(apiPath) # NoErr
        THEN [err |-> ResolveErr(apiPath), record |-> NoRecord, st |-> st]
        ELSE IF Exists(st.fs, apiPath)
        THEN [err |-> "PATH_CONFLICT", record |-> NoRecord, st |-> st]
        ELSE LET moved == MoveFromTrash(st, record.trashName, apiPath)
                 now == st.clock
                 after == [moved.st EXCEPT !.clock = now + 1]
             IN  IF ~moved.ok
                 THEN [err |-> "restore", record |-> NoRecord, st |-> moved.st]
                 ELSE IF repoFails
                 THEN [err |-> "mark restored", record |-> NoRecord, st |-> after]
                 ELSE [err |-> NoErr,
                       record |-> [record EXCEPT !.restoredAt = now, !.restoredBy = actor],
                       st |-> [after EXCEPT !.records =
                                 MarkRestored(moved.st.records, record.id, actor, now).records]]

\* TrashService.RestoreLatest; repoFails: the UPDATE marking the record fails
RestoreLatest(st, apiPath, actor, repoFails) ==
    LET record == FindLatestByPath(st.records, apiPath)
    IN  IF record = NoRecord
        THEN [err |-> "NOT_FOUND", record |-> NoRecord, st |-> st]
        ELSE IF ResolveErr(apiPath) # NoErr
        THEN [err |-> ResolveErr(apiPath), record |-> NoRecord, st |-> st]
        ELSE IF Exists(st.fs, apiPath)
        THEN [err |-> "PATH_CONFLICT", record |-> NoRecord, st |-> st]
        ELSE LET made == OsMkdirAll(st.fs, Parent(apiPath))
             IN  IF ~made.ok
                 THEN [err |-> "mkdir", record |-> NoRecord, st |-> st]
                 ELSE LET moved == MoveFromTrash([st EXCEPT !.fs = made.fs],
                                                 record.trashName, apiPath)
                          now == st.clock
                          marked == IF repoFails
                                    THEN [ok |-> FALSE, records |-> moved.st.records]
                                    ELSE MarkRestored(moved.st.records, record.id, actor, now)
                          after == [moved.st EXCEPT !.clock = now + 1]
                      IN  IF ~moved.ok
                          THEN [err |-> "restore", record |-> NoRecord, st |-> moved.st]
                          ELSE IF ~marked.ok
                          THEN [err |-> "mark restored", record |-> NoRecord,
                                st |-> MoveToTrash(after, apiPath, record.trashName)]
                          ELSE [err |-> NoErr,
                                record |-> [record EXCEPT !.restoredAt = now,
                                                          !.restoredBy = actor],
                                st |-> [after EXCEPT !.records = marked.records]]

RECURSIVE SortByDeletedAtDesc(_, _)
SortByDeletedAtDesc(recs, ids) ==
    IF ids = {} THEN <<>>
    ELSE LET top == CHOOSE i \in ids : \A j \in ids : recs[j].deletedAt <= recs[i].deletedAt
         IN  <<recs[top]>> \o SortByDeletedAtDesc(recs, ids \ {top})

\* TrashRepository.List: all rows, or those with restored_at IS NULL, newest first
List(recs, includeRestored) ==
    SortByDeletedAtDesc(recs, IF includeRestored THEN DOMAIN recs ELSE ActiveIds(recs))

\* os.RemoveAll of one entry of the trash area
RemoveTrashEntry(trash, name) == [n \in DOMAIN trash \ {name} |-> trash[n]]

\* TrashRepository.Delete
RepoDelete(recs, id) == [i \in DOMAIN recs \ {id} |-> recs[i]]

PermanentDeleteAnyRecord(st, id) ==
    IF id \notin DOMAIN st.records
    THEN [err |-> "NOT_FOUND", st |-> st]
    ELSE [err |-> NoErr,
          st |-> [st EXCEPT
                    !.trash = RemoveTrashEntry(st.trash, st.records[id].trashName),
                    !.records = RepoDelete(st.records, id)]]

\* TrashService.PermanentDelete: FindByID (restored_at IS NULL), removal of the
\* trash entry, deletion of the row.  The thumbnails removed on the way are
\* files of the thumbnail cache, outside this model's state.
PermanentDelete(st, id) ==
    IF id \notin ActiveIds(st.records)
    THEN [err |-> "NOT_FOUND", st |-> st]
    ELSE [err |-> NoErr,
          st |-> [st EXCEPT
                    !.trash = RemoveTrashEntry(st.trash, st.records[id].trashName),
                    !.records = RepoDelete(st.records, id)]]

\* TrashRepository.DeleteAllNotRestored
DeleteAllNotRestored(recs) == [i \in DOMAIN recs \ ActiveIds(recs) |-> recs[i]]

\* TrashService.EmptyTrash: every listed record's trash entry is removed and
\* counted, then all rows with restored_at IS NULL are deleted
EmptyTrash(st) ==
    LET listed == List(st.records, FALSE)
        names == {listed[i].trashName : i \in 1..Len(listed)}
    IN  [err |-> NoErr,
         count |-> Len(listed),
         st |-> [st EXCEPT
                   !.trash = [n \in DOMAIN st.trash \ names |-> st.trash[n]],
                   !.records = DeleteAllNotRestored(st.records)]]


-----------------------------------------------------------------------------
(* The operations engine.  Every call returns, beside its result, the audit *)
(* entries it logged, in order.  The event bus is an optional, fire-and-    *)
(* forget collaborator and is left out.                                     *)

Audit(action, status, resource) ==
    [action |-> action, status |-> status, resource |-> resource]

\* the tokens of file names in byte order, for os.ReadDir's sorted listing
Alphabet ==
    <<"1", "2", "3", "4", "5", "6", "7", "8", "9", "a", "b", "d", "m", "z", ".t", ".zip">>

TokenRank(t) == CHOOSE i \in 1..Len(Alphabet) : Alphabet[i] = t

RECURSIVE NameLess(_, _)
NameLess(e1, e2) ==
    IF e1 = <<>> THEN e2 # <<>>
    ELSE IF e2 = <<>> THEN FALSE
    ELSE IF Head(e1) = Head(e2) THEN NameLess(Tail(e1), Tail(e2))
    ELSE TokenRank(Head(e1)) < TokenRank(Head(e2))

RECURSIVE SortNames(_)
SortNames(names) ==
    IF names = {} THEN <<>>
    ELSE LET first == CHOOSE n \in names : \A o \in names \ {n} : NameLess(n, o)
         IN  <<first>> \o SortNames(names \ {first})

\* os.ReadDir: the names directly below p, sorted
ReadDirNames(f, p) ==
    SortNames({q[Len(p) + 1] : q \in {x \in DOMAIN f : IsUnder(x, p) /\ Len(x) = Len(p) + 1}})

\* os.Stat through Storage.Stat: ENOTDIR where the way leads through a file
StatErr(f, p) ==
    IF ResolveErr(p) # NoErr THEN ResolveErr(p)
    ELSE IF p \in DOMAIN f THEN NoErr
    ELSE IF \E q \in Prefixes(p) : q \in DOMAIN f /\ f[q] # "dir" THEN "ENOTDIR"
    ELSE "ENOENT"

\* normalizeConflictPolicy on the policies a request can carry: "" stands
\* for an absent policy, "SKIP" and "OVERWRITE" for one in another case,
\* "merge" for one that is not a policy
normalizeConflictPolicy(raw) ==
    IF raw = "" THEN "rename"
    ELSE IF raw = "SKIP" THEN "skip"
    ELSE IF raw = "OVERWRITE" THEN "overwrite"
    ELSE IF raw \in {"overwrite", "rename", "skip"} THEN raw
    ELSE "BAD_REQUEST"

\* filepath.Ext and the name without it
Ext(name) ==
    IF name # <<>> /\ name[Len(name)] \in ExtTokens THEN <<name[Len(name)]>> ELSE <<>>

TrimExt(name) == SubSeq(name, 1, Len(name) - Len(Ext(name)))

\* the rename loop without its look at the candidate: the name at index,
\* whatever holds it
NextFreeNameUnchecked(f, desiredPath, index) ==
    [path |-> normalizeAPIPath(Parent(desiredPath)
                  \o <<TrimExt(Base(desiredPath)) \o <<ToString(index)>>
                          \o Ext(Base(desiredPath))>>),
     err |-> NoErr]

\* the rename loop of resolveConflictTarget from index on: "base (index)ext"
RECURSIVE NextFreeName(_, _, _)
NextFreeName(f, desiredPath, index) ==
    IF index > RenameLimit THEN [path |-> <<>>, err |-> "CONFLICT"]
    ELSE LET nextName == TrimExt(Base(desiredPath)) \o <<ToString(index)>>
                            \o Ext(Base(desiredPath))
             nextPath == normalizeAPIPath(Parent(desiredPath) \o <<nextName>>)
         IN  IF StatErr(f, nextPath) = NoErr
             THEN NextFreeName(f, desiredPath, index + 1)
             ELSE IF StatErr(f, nextPath) = "ENOENT"
             THEN [path |-> nextPath, err |-> NoErr]
             ELSE [path |-> <<>>, err |-> StatErr(f, nextPath)]

\* the resolver taking skip for rename on an existing path
resolveConflictTargetSkipRenames(f, desiredPath, policy) ==
    LET normalizedPolicy == normalizeConflictPolicy(policy)
        out(path, skipped, err, g) ==
            [path |-> path, skipped |-> skipped, err |-> err, fs |-> g]
    IN  IF normalizedPolicy = "BAD_REQUEST" THEN out(<<>>, FALSE, "BAD_REQUEST", f)
        ELSE IF StatErr(f, desiredPath) = "ENOENT" THEN out(desiredPath, FALSE, NoErr, f)
        ELSE IF StatErr(f, desiredPath) # NoErr
        THEN out(<<>>, FALSE, StatErr(f, desiredPath), f)
        ELSE IF normalizedPolicy = "overwrite"
        THEN out(desiredPath, FALSE, NoErr, OsRemoveAll(f, desiredPath))
        ELSE LET next == NextFreeName(f, desiredPath, 1)
             IN  out(next.path, FALSE, next.err, f)

\* resolveConflictTarget: the path to write to, or skipped, or an error;
\* overwrite removes what is at the desired path
resolveConflictTarget(f, desiredPath, policy) ==
    LET normalizedPolicy == normalizeConflictPolicy(policy)
        out(path, skipped, err, g) ==
            [path |-> path, skipped |-> skipped, err |-> err, fs |-> g]
    IN  IF normalizedPolicy = "BAD_REQUEST" THEN out(<<>>, FALSE, "BAD_REQUEST", f)
        ELSE IF StatErr(f, desiredPath) = "ENOENT" THEN out(desiredPath, FALSE, NoErr, f)
        ELSE IF StatErr(f, desiredPath) # NoErr
        THEN out(<<>>, FALSE, StatErr(f, desiredPath), f)
        ELSE IF normalizedPolicy = "skip" THEN out(<<>>, TRUE, NoErr, f)
        ELSE IF normalizedPolicy = "overwrite"
        THEN out(desiredPath, FALSE, NoErr, OsRemoveAll(f, desiredPath))
        ELSE LET next == NextFreeName(f, desiredPath, 1)
             IN  out(next.path, FALSE, next.err, f)

\* copyRecursive and its loop over a directory's entries.  A directory is
\* created at the target before the source is listed, so a target inside
\* the source is listed and descended into, until the path is longer than
\* the system takes.
RECURSIVE copyRecursive(_, _, _), copyEntries(_, _, _, _)
copyRecursive(f, source, target) ==
    IF Len(source) > PathMax \/ Len(target) > PathMax
    THEN [ok |-> FALSE, fs |-> f]
    ELSE IF source \notin DOMAIN f THEN [ok |-> FALSE, fs |-> f]
    ELSE IF f[source] = "dir"
    THEN LET made == OsMkdirAll(f, target)
         IN  IF ~made.ok THEN made
             ELSE copyEntries(made.fs, source, target, ReadDirNames(made.fs, source))
    ELSE LET made == OsMkdirAll(f, Parent(target))
         IN  IF ~made.ok THEN made
             ELSE IF IsDirAt(made.fs, target) THEN [ok |-> FALSE, fs |-> made.fs]
             ELSE [ok |-> TRUE,
                   fs |-> [q \in DOMAIN made.fs \cup {target} |->
                              IF q = target
                              THEN (IF source = target THEN "" ELSE made.fs[source])
                              ELSE made.fs[q]]]

copyEntries(f, source, target, names) ==
    IF names = <<>> THEN [ok |-> TRUE, fs |-> f]
    ELSE LET one == copyRecursive(f, source \o <<Head(names)>>, target \o <<Head(names)>>)
         IN  IF ~one.ok THEN one
             ELSE copyEntries(one.fs, source, target, Tail(names))

\* OperationsService.Rename; newName is a file name SanitizeFilename accepts
Rename(st, oldPath, newName) ==
    LET fail(e) == [err |-> e, st |-> st, audit |-> <<Audit("rename", "failed", oldPath)>>]
        newAPIPath == normalizeAPIPath(Parent(oldPath) \o <<newName>>)
    IN  IF ResolveErr(oldPath) # NoErr THEN fail(ResolveErr(oldPath))
        ELSE IF ~Exists(st.fs, normalizeAPIPath(oldPath)) THEN fail("NOT_FOUND")
        ELSE IF ResolveErr(newAPIPath) # NoErr THEN fail(ResolveErr(newAPIPath))
        ELSE IF Exists(st.fs, newAPIPath) THEN fail("ALREADY_EXISTS")
        ELSE LET moved == StorageRenameFs(st.fs, normalizeAPIPath(oldPath), newAPIPath)
             IN  IF moved.err # NoErr
                 THEN [err |-> moved.err, st |-> [st EXCEPT !.fs = moved.fs],
                       audit |-> <<Audit("rename", "failed", oldPath)>>]
                 ELSE [err |-> NoErr, st |-> [st EXCEPT !.fs = moved.fs],
                       audit |-> <<Audit("rename", "success", normalizeAPIPath(oldPath))>>]

\* A batch call's outcome: the whole-call error, the two result lists, the
\* audit entries and the state it leaves.  Each list entry carries the
\* position idx of its input, and attempted lists the positions in the
\* order the loop took them up; neither is data of the program.
NoBatch(st) ==
    [err |-> NoErr, succeeded |-> <<>>, failed |-> <<>>, audit |-> <<>>,
     attempted |-> <<>>, st |-> st]

WholeCallError(st, action, resource, e) ==
    [NoBatch(st) EXCEPT !.err = e, !.audit = <<Audit(action, "failed", resource)>>]

ItemFailed(acc, action, i, from, reason, st) ==
    [acc EXCEPT !.failed = Append(@, [idx |-> i, from |-> from, reason |-> reason]),
                !.audit = Append(@, Audit(action, "failed", from)),
                !.attempted = Append(@, i),
                !.st = st]

ItemDone(acc, action, i, from, to, st) ==
    [acc EXCEPT !.succeeded = Append(@, [idx |-> i, from |-> from, to |-> to]),
                !.audit = Append(@, Audit(action, "success", from)),
                !.attempted = Append(@, i),
                !.st = st]

\* one pass of the loop of Move
MoveItem(acc, i, rawSource, destination, normalizedPolicy) ==
    LET source == normalizeAPIPath(rawSource)
        target == normalizeAPIPath(destination \o <<Base(source)>>)
        resolved == resolveConflictTarget(acc.st.fs, target, normalizedPolicy)
        cleared == [acc.st EXCEPT !.fs = resolved.fs]
        moved == StorageRenameFs(resolved.fs, source, resolved.path)
    IN  IF source = RootPath
        THEN ItemFailed(acc, "move", i, source, "root path cannot be moved", acc.st)
        ELSE IF source = target
        THEN [acc EXCEPT !.succeeded = Append(@, [idx |-> i, from |-> source, to |-> target]),
                         !.attempted = Append(@, i)]
        ELSE IF resolved.err # NoErr
        THEN ItemFailed(acc, "move", i, source, resolved.err, cleared)
        ELSE IF resolved.skipped
        THEN ItemFailed(acc, "move", i, source, "skipped: target already exists", cleared)
        ELSE IF moved.err # NoErr
        THEN ItemFailed(acc, "move", i, source, moved.err, [acc.st EXCEPT !.fs = moved.fs])
        ELSE ItemDone(acc, "move", i, source, resolved.path, [acc.st EXCEPT !.fs = moved.fs])

RECURSIVE MoveLoopStopAtFailure(_, _, _, _, _)
MoveLoopStopAtFailure(acc, i, sources, destination, normalizedPolicy) ==
    IF i > Len(sources) \/ acc.failed # <<>> THEN acc
    ELSE MoveLoopStopAtFailure(MoveItem(acc, i, sources[i], destination, normalizedPolicy),
                               i + 1, sources, destination, normalizedPolicy)

RECURSIVE MoveLoop(_, _, _, _, _)
MoveLoop(acc, i, sources, destination, normalizedPolicy) ==
    IF i > Len(sources) THEN acc
    ELSE MoveLoop(MoveItem(acc, i, sources[i], destination, normalizedPolicy),
                  i + 1, sources, destination, normalizedPolicy)

\* OperationsService.Move
Move(st, sources, rawDestination, conflictPolicy) ==
    LET destination == normalizeAPIPath(rawDestination)
        made == StorageMkdirAllFs(st.fs, destination)
    IN  IF Len(sources) = 0
        THEN WholeCallError(st, "move", rawDestination, "BAD_REQUEST")
        ELSE IF normalizeConflictPolicy(conflictPolicy) = "BAD_REQUEST"
        THEN WholeCallError(st, "move", rawDestination, "BAD_REQUEST")
        ELSE IF ResolveErr(destination) # NoErr
        THEN WholeCallError(st, "move", destination, ResolveErr(destination))
        ELSE IF made.err # NoErr
        THEN WholeCallError(st, "move", destination, made.err)
        ELSE MoveLoop(NoBatch([st EXCEPT !.fs = made.fs]), 1, sources, destination,
                      normalizeConflictPolicy(conflictPolicy))

\* one pass of the loop of Copy
CopyItem(acc, i, rawSource, destination, normalizedPolicy) ==
    LET source == normalizeAPIPath(rawSource)
        target == normalizeAPIPath(destination \o <<Base(source)>>)
        resolved == resolveConflictTarget(acc.st.fs, target, normalizedPolicy)
        cleared == [acc.st EXCEPT !.fs = resolved.fs]
        copied == copyRecursive(resolved.fs, source, resolved.path)
    IN  IF ResolveErr(source) # NoErr
        THEN ItemFailed(acc, "copy", i, source, ResolveErr(source), acc.st)
        ELSE IF ~Exists(acc.st.fs, source)
        THEN ItemFailed(acc, "copy", i, source, "no such file or directory", acc.st)
        ELSE IF resolved.err # NoErr
        THEN ItemFailed(acc, "copy", i, source, resolved.err, cleared)
        ELSE IF resolved.skipped
        THEN ItemFailed(acc, "copy", i, source, "skipped: target already exists", cleared)
        ELSE IF ResolveErr(resolved.path) # NoErr
        THEN ItemFailed(acc, "copy", i, source, ResolveErr(resolved.path), cleared)
        ELSE IF ~copied.ok
        THEN ItemFailed(acc, "copy", i, source, "copy", [acc.st EXCEPT !.fs = copied.fs])
        ELSE ItemDone(acc, "copy", i, source, resolved.path, [acc.st EXCEPT !.fs = copied.fs])

RECURSIVE CopyLoop(_, _, _, _, _)
CopyLoop(acc, i, sources, destination, normalizedPolicy) ==
    IF i > Len(sources) THEN acc
    ELSE CopyLoop(CopyItem(acc, i, sources[i], destination, normalizedPolicy),
                  i + 1, sources, destination, normalizedPolicy)

\* OperationsService.Copy
Copy(st, sources, rawDestination, conflictPolicy) ==
    LET destination == normalizeAPIPath(rawDestination)
        made == StorageMkdirAllFs(st.fs, destination)
    IN  IF Len(sources) = 0
        THEN WholeCallError(st, "copy", rawDestination, "BAD_REQUEST")
        ELSE IF normalizeConflictPolicy(conflictPolicy) = "BAD_REQUEST"
        THEN WholeCallError(st, "copy", rawDestination, "BAD_REQUEST")
        ELSE IF ResolveErr(destination) # NoErr
        THEN WholeCallError(st, "copy", destination, ResolveErr(destination))
        ELSE IF made.err # NoErr
        THEN WholeCallError(st, "copy", destination, made.err)
        ELSE CopyLoop(NoBatch([st EXCEPT !.fs = made.fs]), 1, sources, destination,
                      normalizeConflictPolicy(conflictPolicy))

\* one pass of the loop of Delete; faults[i]: the trash record of input i
\* cannot be stored
DeleteItem(acc, i, rawPath, actor, repoFails) ==
    LET path == normalizeAPIPath(rawPath)
        r == SoftDelete(acc.st, path, actor, repoFails)
    IN  IF path = RootPath
        THEN ItemFailed(acc, "delete", i, path, "root path cannot be deleted", acc.st)
        ELSE IF r.err # NoErr
        THEN ItemFailed(acc, "delete", i, path, r.err, r.st)
        ELSE ItemDone(acc, "delete", i, path, path, r.st)

RECURSIVE DeleteLoop(_, _, _, _, _)
DeleteLoop(acc, i, paths, actor, faults) ==
    IF i > Len(paths) THEN acc
    ELSE DeleteLoop(DeleteItem(acc, i, paths[i], actor, faults[i]),
                    i + 1, paths, actor, faults)

\* OperationsService.Delete
Delete(st, paths, actor, faults) ==
    IF Len(paths) = 0
    THEN WholeCallError(st, "delete", <<>>, "BAD_REQUEST")
    ELSE DeleteLoop(NoBatch(st), 1, paths, actor, faults)

\* one pass of the loop of Restore
RestoreItem(acc, i, rawPath, actor, repoFails) ==
    LET path == normalizeAPIPath(rawPath)
        r == RestoreLatest(acc.st, path, actor, repoFails)
    IN  IF path = RootPath
        THEN ItemFailed(acc, "restore", i, path, "root path cannot be restored", acc.st)
        ELSE IF r.err # NoErr
        THEN ItemFailed(acc, "restore", i, path, r.err, r.st)
        ELSE ItemDone(acc, "restore", i, path, path, r.st)

RECURSIVE RestoreLoop(_, _, _, _, _)
RestoreLoop(acc, i, paths, actor, faults) ==
    IF i > Len(paths) THEN acc
    ELSE RestoreLoop(RestoreItem(acc, i, paths[i], actor, faults[i]),
                     i + 1, paths, actor, faults)

\* OperationsService.Restore
Restore(st, paths, actor, faults) ==
    IF Len(paths) = 0
    THEN WholeCallError(st, "restore", <<>>, "BAD_REQUEST")
    ELSE RestoreLoop(NoBatch(st), 1, paths, actor, faults)

-----------------------------------------------------------------------------
(* Compress.  An archive is a file whose content is the text "zip:" and    *)
(* then its entries in the order written, each closed by ";"; an entry of  *)
(* a directory ends in "/".                                                 *)

RECURSIVE NameString(_)
NameString(name) ==
    IF name = <<>> THEN "" ELSE Head(name) \o NameString(Tail(name))

\* the entries filepath.WalkDir adds for path, named rel in the archive
RECURSIVE WalkEntries(_, _, _), WalkNames(_, _, _, _)
WalkEntries(f, path, rel) ==
    IF f[path] = "dir"
    THEN rel \o "/;" \o WalkNames(f, path, rel, ReadDirNames(f, path))
    ELSE rel \o ";"

WalkNames(f, path, rel, names) ==
    IF names = <<>> THEN ""
    ELSE WalkEntries(f, path \o <<Head(names)>>, rel \o "/" \o NameString(Head(names)))
            \o WalkNames(f, path, rel, Tail(names))

\* the loop of util.Compress from source i on, with written the entries so
\* far.  It ends at the first source os.Stat does not find and at the
\* source whose copy fails (failAt, 0 for none); the archive file, created
\* before the loop, is closed with what was written.
RECURSIVE CompressLoop(_, _, _, _, _, _)
CompressLoop(f, sources, destZip, i, written, failAt) ==
    LET closed == [q \in DOMAIN f \cup {destZip} |->
                      IF q = destZip THEN written ELSE f[q]]
    IN  IF i > Len(sources) THEN [err |-> NoErr, fs |-> closed]
        ELSE IF ~Exists(f, sources[i])
        THEN [err |-> "no such file or directory", fs |-> closed]
        ELSE IF i = failAt THEN [err |-> "write", fs |-> closed]
        ELSE CompressLoop(f, sources, destZip, i + 1,
                          written \o WalkEntries(f, sources[i], NameString(Base(sources[i]))),
                          failAt)

\* util.Compress: os.Create, then the loop
UtilCompress(f, sources, destZip, failAt) ==
    IF IsDirAt(f, destZip) \/ ~IsDirAt(f, Parent(destZip))
    THEN [err |-> "create", fs |-> f]
    ELSE CompressLoop(f, sources, destZip, 1, "zip:", failAt)

\* SanitizeFilename and the ".zip" suffix on the names a caller passes: ""
\* stands for a name that is empty after trimming, any other is a stem
\* that needs no change
ZipName(name) == IF name = "" THEN <<>> ELSE <<name, ".zip">>

\* the first source of the list Storage.Resolve rejects, 0 for none
RECURSIVE FirstRejected(_, _)
FirstRejected(sources, i) ==
    IF i > Len(sources) THEN 0
    ELSE IF ResolveErr(normalizeAPIPath(sources[i])) # NoErr THEN i
    ELSE FirstRejected(sources, i + 1)

\* OperationsService.Compress
Compress(st, sources, rawDestination, name, failAt) ==
    LET destination == normalizeAPIPath(rawDestination)
        made == StorageMkdirAllFs(st.fs, destination)
        zipPathAPI == destination \o <<ZipName(name)>>
        out(e, f) == [err |-> e, path |-> IF e = NoErr THEN zipPathAPI ELSE <<>>,
                      st |-> [st EXCEPT !.fs = f]]
        normalized == [i \in 1..Len(sources) |-> normalizeAPIPath(sources[i])]
        rejected == FirstRejected(sources, 1)
        packed == UtilCompress(made.fs, normalized, zipPathAPI, failAt)
    IN  IF Len(sources) = 0 THEN out("BAD_REQUEST", st.fs)
        ELSE IF ResolveErr(destination) # NoErr THEN out(ResolveErr(destination), st.fs)
        ELSE IF made.err # NoErr THEN out(made.err, st.fs)
        ELSE IF ZipName(name) = <<>> THEN out("INVALID_FILENAME", made.fs)
        ELSE IF ResolveErr(zipPathAPI) # NoErr THEN out(ResolveErr(zipPathAPI), made.fs)
        ELSE IF StatErr(made.fs, zipPathAPI) = NoErr THEN out("ALREADY_EXISTS", made.fs)
        ELSE IF rejected # 0
        THEN out(ResolveErr(normalizeAPIPath(sources[rejected])), made.fs)
        ELSE out(packed.err, packed.fs)

-----------------------------------------------------------------------------
(* Decompress.  zip.OpenReader is the table below: it gives the entries of *)
(* the archives the runs meet, by content, and fails on any other content. *)
(* An entry has a name, a path relative to the destination that may hold   *)
(* ".." elements; a file entry is written with the content "new".          *)

ZipFile(name) == [name |-> name, dir |-> FALSE]

ZipDir(name) == [name |-> name, dir |-> TRUE]

\* the archives: a; a and m; a and then ../a; ../a and then a; the
\* directory d with its file a; m and then the name "."
ZipTable ==
    [content \in {"zip:a;", "zip:a;m;", "zip:a;../a;", "zip:../a;a;", "zip:d/;d/a;",
                  "zip:m;.;"} |->
        IF content = "zip:a;" THEN <<ZipFile(<<<<"a">>>>)>>
        ELSE IF content = "zip:a;m;" THEN <<ZipFile(<<<<"a">>>>), ZipFile(<<<<"m">>>>)>>
        ELSE IF content = "zip:a;../a;"
        THEN <<ZipFile(<<<<"a">>>>), ZipFile(<<DotDot, <<"a">>>>)>>
        ELSE IF content = "zip:../a;a;"
        THEN <<ZipFile(<<DotDot, <<"a">>>>), ZipFile(<<<<"a">>>>)>>
        ELSE IF content = "zip:d/;d/a;"
        THEN <<ZipDir(<<<<"d">>>>), ZipFile(<<<<"d">>, <<"a">>>>)>>
        ELSE <<ZipFile(<<<<"m">>>>), ZipFile(<<Dot>>)>>]

\* zip.OpenReader(srcZip)
ZipOpenReader(f, srcZip) ==
    IF ~Exists(f, srcZip) THEN [err |-> "no such file or directory", files |-> <<>>]
    ELSE IF f[srcZip] \notin DOMAIN ZipTable THEN [err |-> "not a valid zip file", files |-> <<>>]
    ELSE [err |-> NoErr, files |-> ZipTable[f[srcZip]]]

\* filepath.Join(destDir, f.Name) and the test on its prefix: the joined
\* path is cleaned, so ".." elements climb, out of the destination and out
\* of the storage root
ZipJoin(destDir, name) ==
    LET fpath == CleanElems(destDir \o name, <<>>, FALSE)
    IN  [fpath |-> fpath,
         legal |-> /\ \A i \in 1..Len(fpath) : fpath[i] # DotDot
                   /\ IsUnder(fpath, destDir)
                   /\ fpath # destDir]

\* the loop of CheckZipConflicts from entry i on
RECURSIVE ConflictLoop(_, _, _, _, _)
ConflictLoop(f, files, destDir, i, conflicts) ==
    IF i > Len(files) THEN [err |-> NoErr, conflicts |-> conflicts]
    ELSE LET joined == ZipJoin(destDir, files[i].name)
         IN  IF ~joined.legal THEN [err |-> "illegal file path", conflicts |-> <<>>]
             ELSE ConflictLoop(f, files, destDir, i + 1,
                               IF Exists(f, joined.fpath)
                               THEN Append(conflicts, files[i].name)
                               ELSE conflicts)

\* CheckZipConflicts stopping at the first entry found on an existing path
CheckZipConflictsFirstOnly(f, srcZip, destDir) ==
    LET r == ZipOpenReader(f, srcZip)
        all == ConflictLoop(f, r.files, destDir, 1, <<>>)
    IN  IF r.err # NoErr THEN [err |-> r.err, conflicts |-> <<>>]
        ELSE [all EXCEPT !.conflicts = IF @ = <<>> THEN <<>> ELSE <<Head(@)>>]

\* util.CheckZipConflicts
CheckZipConflicts(f, srcZip, destDir) ==
    LET r == ZipOpenReader(f, srcZip)
    IN  IF r.err # NoErr THEN [err |-> r.err, conflicts |-> <<>>]
        ELSE ConflictLoop(f, r.files, destDir, 1, <<>>)

\* the loop of util.Decompress from entry i on
RECURSIVE ExtractLoop(_, _, _, _, _)
ExtractLoop(f, files, destDir, i, extractedFiles) ==
    IF i > Len(files) THEN [err |-> NoErr, files |-> extractedFiles, fs |-> f]
    ELSE LET joined == ZipJoin(destDir, files[i].name)
             fpath == joined.fpath
             made == OsMkdirAll(f, IF files[i].dir THEN fpath ELSE Parent(fpath))
             failed(e, g) == [err |-> e, files |-> <<>>, fs |-> g]
         IN  IF ~joined.legal THEN failed("illegal file path", f)
             ELSE IF files[i].dir
             THEN ExtractLoop(made.fs, files, destDir, i + 1,
                              Append(extractedFiles, files[i].name))
             ELSE IF ~made.ok THEN failed("mkdir", f)
             ELSE IF IsDirAt(made.fs, fpath) THEN failed("is a directory", made.fs)
             ELSE ExtractLoop([q \in DOMAIN made.fs \cup {fpath} |->
                                  IF q = fpath THEN "new" ELSE made.fs[q]],
                              files, destDir, i + 1, Append(extractedFiles, files[i].name))

\* util.Decompress
UtilDecompress(f, srcZip, destDir) ==
    LET r == ZipOpenReader(f, srcZip)
    IN  IF r.err # NoErr THEN [err |-> r.err, files |-> <<>>, fs |-> f]
        ELSE ExtractLoop(f, r.files, destDir, 1, <<>>)

\* OperationsService.Decompress
Decompress(st, rawSource, rawDestination, conflictPolicy) ==
    LET source == normalizeAPIPath(rawSource)
        destination == normalizeAPIPath(rawDestination)
        made == StorageMkdirAllFs(st.fs, destination)
        checked == CheckZipConflicts(made.fs, source, destination)
        extracted == UtilDecompress(made.fs, source, destination)
        out(e, resource, conflicts, files, f) ==
            [err |-> e, conflicts |-> conflicts, files |-> files,
             audit |-> <<Audit("decompress", IF e = NoErr THEN "success" ELSE "failed",
                               resource)>>,
             st |-> [st EXCEPT !.fs = f]]
    IN  IF ResolveErr(source) # NoErr THEN out(ResolveErr(source), source, <<>>, <<>>, st.fs)
        ELSE IF ResolveErr(destination) # NoErr
        THEN out(ResolveErr(destination), destination, <<>>, <<>>, st.fs)
        ELSE IF made.err # NoErr THEN out(made.err, destination, <<>>, <<>>, st.fs)
        ELSE IF conflictPolicy # "overwrite" /\ checked.err # NoErr
        THEN out(checked.err, source, <<>>, <<>>, made.fs)
        ELSE IF conflictPolicy # "overwrite" /\ checked.conflicts # <<>>
        THEN out("CONFLICT", source, checked.conflicts, <<>>, made.fs)
        ELSE out(extracted.err, source, <<>>, extracted.files, extracted.fs)

-----------------------------------------------------------------------------
(* Initial states.                                                          *)

\* the tree the runs start from: /a (a file), /d (a directory), /d/a (a file)
SeedFs ==
    [q \in {<<>>, <<<<"a">>>>, <<<<"d">>>>, <<<<"d">>, <<"a">>>>} |->
        IF q = <<<<"a">>>> THEN "x"
        ELSE IF q = <<<<"d">>, <<"a">>>> THEN "y"
        ELSE "dir"]

NoCall == [op |-> "none", path |-> <<>>, id |-> 0, fault |-> FALSE,
           err |-> NoErr, record |-> NoRecord, count |-> 0]

TrashPaths == {<<<<"a">>>>, <<<<"d">>>>}

NoTally == [p \in TrashPaths |-> [deleted |-> 0, restored |-> 0, conflicts |-> 0]]

NoResolve == [err |-> NoErr, path |-> <<>>]

NoBatchCall == [op |-> "none", inputs |-> <<>>, valid |-> FALSE, err |-> NoErr,
                succeeded |-> <<>>, failed |-> <<>>, attempted |-> <<>>, audit |-> <<>>]

IdleWorker == [pc |-> "idle", job |-> 0, items |-> <<>>, view |-> <<>>, at |-> 0,
               shared |-> FALSE]

NoGhost == [calls |-> 0, subs |-> 0, returned |-> {}, before |-> <<>>, missing |-> <<>>,
            by |-> <<>>, repo |-> <<>>]

-----------------------------------------------------------------------------
(* The trash store's calls, one action per call.                            *)

Actors == {"alice"}

St == [fs |-> fs, trash |-> trashArea, records |-> records,
       uuid |-> nextUuid, clock |-> clock]

SetSt(s) ==
    /\ fs' = s.fs
    /\ trashArea' = s.trash
    /\ records' = s.records
    /\ nextUuid' = s.uuid
    /\ clock' = s.clock

TSoftDelete ==
    /\ opCount < MaxTrashOps
    /\ \E p \in TrashPaths, actor \in Actors, repoFails \in BOOLEAN :
          LET r == SoftDelete(St, p, actor, repoFails)
          IN  /\ SetSt(r.st)
              /\ last' = [NoCall EXCEPT !.op = "softDelete", !.path = p,
                             !.fault = repoFails, !.err = r.err, !.record = r.record]
              /\ tally' = IF r.err = NoErr
                          THEN [tally EXCEPT ![p].deleted = @ + 1]
                          ELSE tally
    /\ opCount' = opCount + 1
    /\ UNCHANGED <<pvVars, batch, jobVars, resolving>>

TRestoreLatest ==
    /\ opCount < MaxTrashOps
    /\ \E p \in TrashPaths, actor \in Actors, repoFails \in BOOLEAN :
          LET r == RestoreLatest(St, p, actor, repoFails)
          IN  /\ SetSt(r.st)
              /\ last' = [NoCall EXCEPT !.op = "restoreLatest", !.path = p,
                             !.fault = repoFails, !.err = r.err, !.record = r.record]
              /\ tally' = IF r.err = NoErr
                          THEN [tally EXCEPT ![p].restored = @ + 1]
                          ELSE IF r.err = "PATH_CONFLICT"
                          THEN [tally EXCEPT ![p].conflicts = @ + 1]
                          ELSE tally
    /\ opCount' = opCount + 1
    /\ UNCHANGED <<pvVars, batch, jobVars, resolving>>

TPermanentDelete ==
    /\ opCount < MaxTrashOps
    /\ \E id \in DOMAIN records \cup {0} :
          LET r == PermanentDelete(St, id)
          IN  /\ SetSt(r.st)
              /\ last' = [NoCall EXCEPT !.op = "permanentDelete", !.id = id, !.err = r.err]
    /\ opCount' = opCount + 1
    /\ UNCHANGED <<pvVars, tally, batch, jobVars, resolving>>

TEmptyTrash ==
    /\ opCount < MaxTrashOps
    /\ LET r == EmptyTrash(St)
       IN  /\ SetSt(r.st)
           /\ last' = [NoCall EXCEPT !.op = "emptyTrash", !.err = r.err, !.count = r.count]
    /\ opCount' = opCount + 1
    /\ UNCHANGED <<pvVars, tally, batch, jobVars, resolving>>

\* an upload writing a file at a path another call may then delete again
TWriteFile ==
    /\ opCount < MaxTrashOps
    /\ \E p \in {<<<<"a">>>>} :
          LET r == StorageWriteFile(fs, p, "z")
          IN  /\ fs' = r.fs
              /\ last' = [NoCall EXCEPT !.op = "write", !.path = p, !.err = r.err]
    /\ opCount' = opCount + 1
    /\ UNCHANGED <<pvVars, trashArea, records, nextUuid, clock, tally, batch, jobVars, resolving>>

\* a rename moving a file out of the way of a restore
TRename ==
    /\ opCount < MaxTrashOps
    /\ \E p \in {<<<<"a">>>>} :
          LET r == Rename(St, p, <<"b">>)
          IN  /\ fs' = r.st.fs
              /\ last' = [NoCall EXCEPT !.op = "rename", !.path = p, !.err = r.err]
    /\ opCount' = opCount + 1
    /\ UNCHANGED <<pvVars, trashArea, records, nextUuid, clock, tally, batch, jobVars, resolving>>

TrashNext ==
    \/ TRename
    \/ TSoftDelete
    \/ TRestoreLatest
    \/ TPermanentDelete
    \/ TEmptyTrash
    \/ TWriteFile

TrashInit ==
    /\ pvPc = "idle"
    /\ pvIn = <<>>
    /\ pvOut = NoResolve
    /\ pvTouched = {}
    /\ fs = SeedFs
    /\ trashArea = <<>>
    /\ records = <<>>
    /\ nextUuid = 1
    /\ clock = 1
    /\ last = NoCall
    /\ opCount = 0
    /\ tally = NoTally
    /\ batch = NoBatchCall
    /\ jobs = <<>>
    /\ requests = <<>>
    /\ queue = <<>>
    /\ worker = IdleWorker
    /\ creating = {}
    /\ channels = <<>>
    /\ subscribers = <<>>
    /\ ghost = NoGhost
    /\ resolving = <<>>

SpecTrash == TrashInit /\ [][TrashNext]_vars

\* the call made by the step is a restoreLatest that succeeded
RestoredOk == last'.op = "restoreLatest" /\ last'.err = NoErr

\* the non-restored records of path p in the state before the step
ActiveFor(p) == {i \in ActiveIds(records) : records[i].originalPath = p}

(* C7: a trash record is created once under a fresh id with restoredAt     *)
(* unset; restoredAt is set at most once, by a successful restoreLatest,   *)
(* and a restored record never changes again and is never removed;         *)
(* permanentDelete and emptyTrash remove only non-restored records, and a  *)
(* removed id never comes back, so no later restoreLatest returns it; the  *)
(* list without restored records shows no restored record.                 *)
RecordStep ==
    /\ \A i \in DOMAIN records' \ DOMAIN records :
          /\ i >= nextUuid
          /\ records'[i].restoredAt = NotRestored
          /\ last'.op = "softDelete"
    /\ \A i \in DOMAIN records \ DOMAIN records' :
          /\ records[i].restoredAt = NotRestored
          /\ last'.op \in {"permanentDelete", "emptyTrash"}
    /\ \A i \in DOMAIN records \cap DOMAIN records' :
          /\ records[i].restoredAt # NotRestored => records'[i] = records[i]
          /\ records'[i] # records[i] =>
                /\ RestoredOk
                /\ last'.record = records'[i]
                /\ records'[i].restoredAt # NotRestored
                /\ records'[i] = [records[i] EXCEPT !.restoredAt = records'[i].restoredAt,
                                                    !.restoredBy = records'[i].restoredBy]
    /\ RestoredOk => last'.record.id \in ActiveIds(records)
    /\ nextUuid' >= nextUuid

RestoreStep ==
    \A p \in TrashPaths :
       (last'.op = "restoreLatest" /\ last'.path = p) =>
          /\ ActiveFor(p) = {} => (last'.err = "NOT_FOUND" /\ UNCHANGED engVars)
          /\ last'.err = NoErr =>
                LET id == last'.record.id
                IN  /\ id \in ActiveFor(p)
                    /\ \A j \in ActiveFor(p) : records[j].deletedAt <= records[id].deletedAt
                    /\ records[id].trashName \in DOMAIN trashArea
                    /\ SubTree(fs', p) = trashArea[records[id].trashName]
                    /\ records[id].trashName \notin DOMAIN trashArea'
                    /\ ActiveFor(p) \ {id} = {i \in ActiveIds(records') :
                                                records'[i].originalPath = p}

RestoreConsumesOnce ==
    /\ [](\A p \in TrashPaths : tally[p].restored <= tally[p].deleted)
    /\ [][RestoreStep]_vars

\* p was deleted twice and restored once (the newer version came back), or
\* deleted and restored once and a second restore has just found nothing
RestoreConsumesOnceWitness ==
    /\ last.op = "restoreLatest"
    /\ \/ /\ last.err = NoErr
          /\ tally[last.path].deleted = 2
          /\ tally[last.path].restored = 1
          /\ Cardinality({i \in ActiveIds(records) : records[i].originalPath = last.path}) = 1
       \/ /\ last.err = "NOT_FOUND"
          /\ tally[last.path].deleted = 1
          /\ tally[last.path].restored = 1

(* C9: restoreLatest(p), with a non-restored record of p in the trash and  *)
(* p occupied, fails with PATH_CONFLICT and leaves the tree, the trash     *)
(* area and the records as they were; once p is free again the same        *)
(* restoreLatest(p), its record update not failing, succeeds.              *)
ConflictStep ==
    \A p \in TrashPaths :
       (last'.op = "restoreLatest" /\ last'.path = p /\ ActiveFor(p) # {}) =>
          /\ Exists(fs, p) =>
                /\ last'.err = "PATH_CONFLICT"
                /\ fs' = fs /\ trashArea' = trashArea /\ records' = records
          /\ (~Exists(fs, p) /\ ~last'.fault) =>
                /\ last'.err = NoErr
                /\ Exists(fs', p)

RestoreConflict == [][ConflictStep]_vars

\* the restore of /a met the uploaded file, which a rename then moved away;
\* the restore has now brought the original content back
RestoreConflictWitness ==
    /\ last.op = "restoreLatest"
    /\ last.err = NoErr
    /\ last.path = <<<<"a">>>>
    /\ tally[last.path].conflicts >= 1
    /\ fs[<<<<"a">>>>] = "x"
    /\ Exists(fs, <<<<"b">>>>)
    /\ fs[<<<<"b">>>>] = "z"

(* C10: a softDelete of an existing path whose record cannot be stored     *)
(* returns an error and leaves the tree, the trash area and the records as *)
(* they were before the call.                                              *)
SoftDeleteStep ==
    (last'.op = "softDelete" /\ last'.fault /\ Exists(fs, last'.path)) =>
        /\ last'.err # NoErr
        /\ fs' = fs /\ trashArea' = trashArea /\ records' = records

SoftDeleteCompensation == [][SoftDeleteStep]_vars

\* the record of a directory with content could not be stored
SoftDeleteCompensationWitness ==
    /\ last.op = "softDelete"
    /\ last.fault
    /\ last.err = "create trash record"
    /\ last.path = <<<<"d">>>>
    /\ Exists(fs, <<<<"d">>, <<"a">>>>)
    /\ trashArea = <<>>

(* C11: a restoreLatest whose record update fails after the tree was moved *)
(* back returns an error; the tree is in the trash area under its trash    *)
(* name again, nothing is at the original path, and the record is still    *)
(* not restored.                                                           *)
RestoreFaultStep ==
    (/\ last'.op = "restoreLatest"
     /\ last'.fault
     /\ ActiveFor(last'.path) # {}
     /\ ~Exists(fs, last'.path)
     /\ FindLatestByPath(records, last'.path).trashName \in DOMAIN trashArea) =>
        /\ last'.err # NoErr
        /\ ~Exists(fs', last'.path)
        /\ trashArea' = trashArea
        /\ records' = records
        /\ FindLatestByPath(records', last'.path).restoredAt = NotRestored

RestoreCompensation == [][RestoreFaultStep]_vars

\* the record of a trashed directory with content could not be marked
RestoreCompensationWitness ==
    /\ last.op = "restoreLatest"
    /\ last.fault
    /\ last.err = "mark restored"
    /\ last.path = <<<<"d">>>>
    /\ ~Exists(fs, <<<<"d">>>>)
    /\ \E n \in DOMAIN trashArea : HasChildren(trashArea[n], <<>>)

-----------------------------------------------------------------------------
(* The storage wrapper: every path-taking call resolves its argument first  *)
(* and hands only the resolved path to the os package.                      *)

\* all client paths of at most MaxLen characters
RECURSIVE StringsUpTo(_)
StringsUpTo(n) ==
    IF n = 0 THEN {<<>>}
    ELSE LET shorter == StringsUpTo(n - 1)
         IN  shorter \cup {Append(s, c) : s \in {t \in shorter : Len(t) = n - 1}, c \in Chars}

ClientPaths == StringsUpTo(MaxLen)

\* the file name the callers of Rename and OpenForWrite join onto a directory
\* (filepath.Base of a non-root source, or a sanitized upload name)
LeafName == <<"a">>

PvInit ==
    /\ pvPc = "start"
    /\ pvIn \in ClientPaths
    /\ pvOut = NoResolve
    /\ pvTouched = {}
    /\ fs = SeedFs
    /\ trashArea = <<>>
    /\ records = <<>>
    /\ nextUuid = 1
    /\ clock = 1
    /\ last = NoCall
    /\ opCount = 0
    /\ tally = NoTally
    /\ batch = NoBatchCall
    /\ jobs = <<>>
    /\ requests = <<>>
    /\ queue = <<>>
    /\ worker = IdleWorker
    /\ creating = {}
    /\ channels = <<>>
    /\ subscribers = <<>>
    /\ ghost = NoGhost
    /\ resolving = <<>>

\* Storage.Resolve
StorageResolve ==
    /\ pvPc = "start"
    /\ pvOut' = ResolvePath(pvIn)
    /\ pvPc' = "resolved"
    /\ UNCHANGED <<pvIn, pvTouched, engVars, callVars, batch, jobVars, resolving>>

\* the shape shared by Stat, MkdirAll, ReadDir, RemoveAll and OpenForRead:
\* resolve, return the error, else call the os function on the resolved path
StorageSingle ==
    /\ pvPc = "start"
    /\ pvOut' = ResolvePath(pvIn)
    /\ pvTouched' = IF pvOut'.err = NoErr THEN {pvOut'.path} ELSE {}
    /\ pvPc' = "called"
    /\ UNCHANGED <<pvIn, engVars, callVars, batch, jobVars, resolving>>

\* Storage.Stat
StorageStat == StorageSingle

\* Storage.MkdirAll
StorageMkdirAll == StorageSingle

\* Storage.RemoveAll
StorageRemoveAll == StorageSingle

\* Storage.OpenForRead
StorageOpenForRead == StorageSingle

\* Storage.OpenForWrite, called on a file name joined onto a directory
StorageOpenForWrite ==
    /\ pvPc = "start"
    /\ pvOut' = ResolvePath(pvIn \o <<"/">> \o LeafName)
    /\ pvTouched' = IF pvOut'.err = NoErr
                    THEN {Dir(pvOut'.path), pvOut'.path}
                    ELSE {}
    /\ pvPc' = "called"
    /\ UNCHANGED <<pvIn, engVars, callVars, batch, jobVars, resolving>>

\* Storage.Rename, from a client path to a file name joined onto a directory
StorageRename ==
    /\ pvPc = "start"
    /\ \E dest \in {<<>>, <<"/", "a">>, <<"/", ".", ".">>} :
          LET old == ResolvePath(pvIn)
              new == ResolvePath(dest \o <<"/">> \o LeafName)
          IN  /\ pvOut' = IF old.err # NoErr THEN old ELSE new
              /\ pvTouched' = IF old.err = NoErr /\ new.err = NoErr
                              THEN {old.path, Dir(new.path), new.path}
                              ELSE {}
    /\ pvPc' = "called"
    /\ UNCHANGED <<pvIn, engVars, callVars, batch, jobVars, resolving>>

PvNext ==
    \/ StorageResolve
    \/ StorageStat
    \/ StorageMkdirAll
    \/ StorageRemoveAll
    \/ StorageOpenForRead
    \/ StorageOpenForWrite
    \/ StorageRename

SpecPath == PvInit /\ [][PvNext]_vars

(* C1: whatever the client path, ResolvePath returns an error or an        *)
(* absolute path that is the storage root or lies below root + separator,  *)
(* and every path a Storage call hands to the filesystem is such a path.   *)
SandboxConfinement ==
    /\ pvPc # "start" /\ pvOut.err = NoErr =>
          \/ pvOut.path = rootAbs
          \/ /\ HasPrefix(pvOut.path, rootAbs \o <<"/">>)
             /\ Len(pvOut.path) > Len(rootAbs) + 1
    /\ \A p \in pvTouched :
          \/ p = rootAbs
          \/ /\ HasPrefix(p, rootAbs \o <<"/">>)
             /\ Len(p) > Len(rootAbs) + 1

\* a backslash path was normalized and resolved strictly below the root
SandboxWitness ==
    /\ pvPc = "called"
    /\ \E i \in 1..Len(pvIn) : pvIn[i] = "bs"
    /\ pvOut.err = NoErr
    /\ pvOut.path # rootAbs
    /\ pvOut.path \in pvTouched


\* the client path as sent has a segment "..", the backslash taken as a
\* separator
HasDotDotSegment(s) ==
    \E i \in 1..Len(s) - 1 :
        /\ s[i] = "." /\ s[i + 1] = "."
        /\ i = 1 \/ s[i - 1] \in {"/", "bs"}
        /\ i + 1 = Len(s) \/ s[i + 2] \in {"/", "bs"}

\* a control character stays in the client path when the white space at
\* its ends is taken off
ControlCharStays(s) ==
    \E i \in 1..Len(s) :
        /\ s[i] \in ControlChars
        /\ \/ s[i] \notin WhiteSpace
           \/ /\ \E j \in 1..i - 1 : s[j] \notin WhiteSpace
              /\ \E k \in i + 1..Len(s) : s[k] \notin WhiteSpace

(* C16 as stated: every client path with a segment "..", backslashes taken *)
(* as slashes, is rejected by ResolvePath with PATH_TRAVERSAL.              *)
DotDotIsTraversal ==
    pvPc = "resolved" /\ HasDotDotSegment(pvIn) => pvOut.err = "PATH_TRAVERSAL"

(* C16: every client path with a segment "..", backslashes taken as        *)
(* slashes, is rejected by ResolvePath, whatever its cleaned form: with    *)
(* INVALID_PATH when a control character stays in it after trimming, with  *)
(* PATH_TRAVERSAL otherwise.                                                *)
DotDotRejected ==
    pvPc = "resolved" /\ HasDotDotSegment(pvIn) =>
        /\ pvOut.path = <<>>
        /\ pvOut.err = IF ControlCharStays(pvIn) THEN "INVALID_PATH" ELSE "PATH_TRAVERSAL"

\* "a\.." cleans to the root itself and has been rejected
DotDotRejectedWitness ==
    /\ pvPc = "resolved"
    /\ pvIn = <<"a", "bs", ".", ".">>
    /\ Clean(ReplaceBackslashes(pvIn)) = Dot
    /\ pvOut.err = "PATH_TRAVERSAL"


(* C18: every client path with a NUL byte or another control character at  *)
(* any place, first, inner or last, is rejected by ResolvePath with        *)
(* INVALID_PATH and resolves to no path.                                    *)
ControlCharIsInvalid ==
    pvPc = "resolved" /\ (\E i \in 1..Len(pvIn) : pvIn[i] \in ControlChars) =>
        /\ pvOut.err = "INVALID_PATH"
        /\ pvOut.path = <<>>

\* what holds: the paths in which a control character stays after the
\* white space at the ends is trimmed are rejected with INVALID_PATH
ControlCharRejected ==
    pvPc = "resolved" /\ ControlCharStays(pvIn) =>
        /\ pvOut.err = "INVALID_PATH"
        /\ pvOut.path = <<>>

\* "a" followed by a line feed has been resolved to the path of "a"
ControlCharResolved ==
    /\ pvPc = "resolved"
    /\ pvIn = <<"a", "lf">>
    /\ pvOut = [err |-> NoErr, path |-> rootAbs \o <<"/", "a">>]

-----------------------------------------------------------------------------
(* The operations engine's batch calls, one action per call.                *)

\* the state the batch calls start from: the seeded tree after a
\* softDelete of the file /a
OpsSeed ==
    SoftDelete([fs |-> SeedFs, trash |-> <<>>, records |-> <<>>, uuid |-> 1, clock |-> 1],
               <<<<"a">>>>, "alice", FALSE).st

\* the paths a batch names: a path with a trashed version and nothing at
\* it, a directory, and the root
OpsPaths == {<<<<"a">>>>, <<<<"d">>>>, RootPath}

\* "/d/../a" and "/d/../d": paths with a segment ".." that clean to the
\* first two
TraversalPaths == {<<<<"d">>, DotDot, <<"a">>>>, <<<<"d">>, DotDot, <<"d">>>>}

RECURSIVE ListsUpTo(_, _)
ListsUpTo(S, n) ==
    IF n = 0 THEN {<<>>}
    ELSE LET shorter == ListsUpTo(S, n - 1)
         IN  shorter \cup {Append(l, x) : l \in {t \in shorter : Len(t) = n - 1}, x \in S}

SourceLists == ListsUpTo(OpsPaths, MaxBatch) \ {<<>>}

\* the batches, and each path with a segment ".." on its own
TracedLists == SourceLists \cup {<<p>> : p \in TraversalPaths}

\* the root, a directory still to be made, and a path Storage.Resolve rejects
Destinations == {RootPath, <<<<"b">>>>, <<CtrlElem>>}

\* the same and "/d/../b", which holds a segment ".." and cleans to the
\* second
TracedDestinations == Destinations \cup {<<<<"d">>, DotDot, <<"b">>>>}

Policies == {"", "skip", "overwrite"}

\* the whole-call checks of Move and Copy, stated on the state before the
\* call: a known policy, a destination inside the sandbox that can be made
PassesValidation(f, destination, policy) ==
    /\ normalizeConflictPolicy(policy) \in {"overwrite", "rename", "skip"}
    /\ \A i \in 1..Len(destination) : destination[i] # CtrlElem
    /\ \A q \in Prefixes(normalizeAPIPath(destination)) : q \in DOMAIN f => f[q] = "dir"

\* what the caller of the engine asked for
Asked(op, destination, policy) ==
    [NoCall EXCEPT !.op = op, !.path = destination,
                   !.record = [policy |-> policy, path |-> <<>>, skipped |-> FALSE]]

BatchCall(op, inputs, valid, r) ==
    [op |-> op, inputs |-> inputs, valid |-> valid, err |-> r.err,
     succeeded |-> r.succeeded, failed |-> r.failed, attempted |-> r.attempted,
     audit |-> r.audit]

\* Move on one of the batches and destinations given; traced: what the
\* caller asked for is kept
OMoveOn(sourceLists, destinations, traced) ==
    /\ opCount < MaxOps
    /\ \E sources \in sourceLists, destination \in destinations, policy \in Policies :
          LET r == Move(St, sources, destination, policy)
          IN  /\ SetSt(r.st)
              /\ batch' = BatchCall("move", sources,
                                    PassesValidation(fs, destination, policy), r)
              /\ last' = IF traced THEN Asked("move", destination, policy) ELSE last
    /\ opCount' = opCount + 1
    /\ UNCHANGED <<pvVars, tally, jobVars, resolving>>

OCopyOn(sourceLists, destinations, traced) ==
    /\ opCount < MaxOps
    /\ \E sources \in sourceLists, destination \in destinations, policy \in Policies :
          LET r == Copy(St, sources, destination, policy)
          IN  /\ SetSt(r.st)
              /\ batch' = BatchCall("copy", sources,
                                    PassesValidation(fs, destination, policy), r)
              /\ last' = IF traced THEN Asked("copy", destination, policy) ELSE last
    /\ opCount' = opCount + 1
    /\ UNCHANGED <<pvVars, tally, jobVars, resolving>>

ODeleteOn(sourceLists) ==
    /\ opCount < MaxOps
    /\ \E paths \in sourceLists, actor \in Actors :
          LET r == Delete(St, paths, actor, [i \in 1..Len(paths) |-> FALSE])
          IN  /\ SetSt(r.st)
              /\ batch' = BatchCall("delete", paths, TRUE, r)
    /\ opCount' = opCount + 1
    /\ UNCHANGED <<pvVars, last, tally, jobVars, resolving>>

ORestoreOn(sourceLists) ==
    /\ opCount < MaxOps
    /\ \E paths \in sourceLists, actor \in Actors :
          LET r == Restore(St, paths, actor, [i \in 1..Len(paths) |-> FALSE])
          IN  /\ SetSt(r.st)
              /\ batch' = BatchCall("restore", paths, TRUE, r)
    /\ opCount' = opCount + 1
    /\ UNCHANGED <<pvVars, last, tally, jobVars, resolving>>

OMove == OMoveOn(SourceLists, Destinations, FALSE)

OCopy == OCopyOn(SourceLists, Destinations, FALSE)

ODelete == ODeleteOn(SourceLists)

ORestore == ORestoreOn(SourceLists)

OpsNext ==
    \/ OMove
    \/ OCopy
    \/ ODelete
    \/ ORestore

\* the same calls with what the caller asked for kept, and with the paths
\* and the destination that hold a segment ".." among the inputs
TracedNext ==
    \/ OMoveOn(TracedLists, TracedDestinations, TRUE)
    \/ OCopyOn(TracedLists, TracedDestinations, TRUE)
    \/ ODeleteOn(TracedLists)
    \/ ORestoreOn(TracedLists)

OpsInit ==
    /\ pvPc = "idle"
    /\ pvIn = <<>>
    /\ pvOut = NoResolve
    /\ pvTouched = {}
    /\ fs = OpsSeed.fs
    /\ trashArea = OpsSeed.trash
    /\ records = OpsSeed.records
    /\ nextUuid = OpsSeed.uuid
    /\ clock = OpsSeed.clock
    /\ last = NoCall
    /\ opCount = 0
    /\ tally = NoTally
    /\ batch = NoBatchCall
    /\ jobs = <<>>
    /\ requests = <<>>
    /\ queue = <<>>
    /\ worker = IdleWorker
    /\ creating = {}
    /\ channels = <<>>
    /\ subscribers = <<>>
    /\ ghost = NoGhost
    /\ resolving = <<>>

SpecOps == OpsInit /\ [][OpsNext]_vars

SpecTraced == OpsInit /\ [][TracedNext]_vars

\* the entries of both result lists that stand for input i
EntriesOf(i) ==
    {k \in 1..Len(batch.succeeded) : batch.succeeded[k].idx = i}
        \cup {-k : k \in {l \in 1..Len(batch.failed) : batch.failed[l].idx = i}}

(* C6: a Move, Copy, Delete or Restore over n >= 1 inputs that passes the  *)
(* whole-call validation returns no whole-call error, takes up the inputs  *)
(* 1..n in this order whatever became of the earlier ones, and reports     *)
(* each input in exactly one entry of the succeeded and failed lists.      *)
BatchIndependence ==
    (batch.op \in {"move", "copy", "delete", "restore"} /\ batch.valid) =>
        /\ batch.err = NoErr
        /\ batch.attempted = [i \in 1..Len(batch.inputs) |-> i]
        /\ Len(batch.succeeded) + Len(batch.failed) = Len(batch.inputs)
        /\ \A i \in 1..Len(batch.inputs) :
              /\ Cardinality(EntriesOf(i)) = 1
              /\ \A k \in 1..Len(batch.succeeded) :
                    batch.succeeded[k].idx = i =>
                       batch.succeeded[k].from = normalizeAPIPath(batch.inputs[i])
              /\ \A k \in 1..Len(batch.failed) :
                    batch.failed[k].idx = i =>
                       batch.failed[k].from = normalizeAPIPath(batch.inputs[i])

\* a move whose first input failed and whose second input was moved
BatchIndependenceWitness ==
    /\ batch.op = "move"
    /\ batch.valid
    /\ Len(batch.inputs) = 2
    /\ \E k \in 1..Len(batch.failed) : batch.failed[k].idx = 1
    /\ \E k \in 1..Len(batch.succeeded) :
          /\ batch.succeeded[k].idx = 2
          /\ batch.succeeded[k].to # batch.succeeded[k].from


\* the path as the caller passed it has a segment ".."
HasDotDot(p) == \E i \in 1..Len(p) : p[i] = DotDot

\* the input at position i is in the failed list with PATH_TRAVERSAL
FailedAsTraversal(i) ==
    \E k \in 1..Len(batch'.failed) :
        /\ batch'.failed[k].idx = i
        /\ batch'.failed[k].reason = "PATH_TRAVERSAL"

(* C17: a source, path or destination with a segment ".." is never cleaned *)
(* and then processed: a destination with one fails the whole Move or Copy *)
(* with PATH_TRAVERSAL, a source or path with one is in the failed list of *)
(* Move, Copy, Delete or Restore with PATH_TRAVERSAL, and nothing in the    *)
(* tree, the trash area or the records changes on its behalf.              *)
TraversalStep ==
    opCount' = opCount + 1 =>
        /\ (batch'.op \in {"move", "copy"} /\ HasDotDot(last'.path)) =>
              /\ batch'.err = "PATH_TRAVERSAL"
              /\ fs' = fs /\ trashArea' = trashArea /\ records' = records
        /\ batch'.err = NoErr =>
              \A i \in 1..Len(batch'.inputs) :
                  HasDotDot(batch'.inputs[i]) => FailedAsTraversal(i)
        /\ (/\ batch'.op \in {"delete", "restore"}
            /\ \A i \in 1..Len(batch'.inputs) : HasDotDot(batch'.inputs[i])) =>
              fs' = fs /\ trashArea' = trashArea /\ records' = records

TraversalNeverSanitized == [][TraversalStep]_vars

\* Delete was called with "/d/../d" alone: the directory /d is in the trash
\* and the call reports /d as deleted
TraversalSanitized ==
    /\ batch.op = "delete"
    /\ batch.inputs = <<<<<<"d">>, DotDot, <<"d">>>>>>
    /\ batch.failed = <<>>
    /\ Len(batch.succeeded) = 1
    /\ batch.succeeded[1].from = <<<<"d">>>>
    /\ ~Exists(fs, <<<<"d">>>>)
    /\ \E id \in DOMAIN records : records[id].originalPath = <<<<"d">>>>


\* the inputs that normalize to the root, by position, and the others
RootInputs(inputs) == {i \in 1..Len(inputs) : normalizeAPIPath(inputs[i]) = RootPath}

WithoutRoot(inputs) == SelectSeq(inputs, LAMBDA p : normalizeAPIPath(p) # RootPath)

\* the failure messages that name the root path
RootPathMessages ==
    {"root path cannot be moved", "root path cannot be copied",
     "root path cannot be deleted", "root path cannot be restored"}

\* the call of the step made on the inputs given instead
SameCallOn(inputs) ==
    IF batch'.op = "move" THEN Move(St, inputs, last'.path, last'.record.policy)
    ELSE IF batch'.op = "copy" THEN Copy(St, inputs, last'.path, last'.record.policy)
    ELSE IF batch'.op = "delete"
    THEN Delete(St, inputs, "alice", [i \in 1..Len(inputs) |-> FALSE])
    ELSE Restore(St, inputs, "alice", [i \in 1..Len(inputs) |-> FALSE])

\* the entries of a list that are not about a root input, positions counted
\* without the root inputs
OthersOf(list, inputs) ==
    {[list[k] EXCEPT !.idx = @ - Cardinality({i \in RootInputs(inputs) : i < @})] :
        k \in {l \in 1..Len(list) : list[l].idx \notin RootInputs(inputs)}}

AllOf(list) == {list[k] : k \in 1..Len(list)}

\* the step is a call of one of ops that passed its whole-call checks and
\* had an input that normalizes to the root
RootStep(ops) ==
    (/\ opCount' = opCount + 1
     /\ batch'.op \in ops
     /\ batch'.err = NoErr
     /\ RootInputs(batch'.inputs) # {}) =>
        LET inputs == batch'.inputs
            others == WithoutRoot(inputs)
            same == SameCallOn(IF others = <<>> THEN inputs ELSE others)
        IN  /\ \A i \in RootInputs(inputs) :
                  /\ \A k \in 1..Len(batch'.succeeded) : batch'.succeeded[k].idx # i
                  /\ \E k \in 1..Len(batch'.failed) :
                        /\ batch'.failed[k].idx = i
                        /\ batch'.failed[k].reason \in RootPathMessages
            /\ others # <<>> =>
                  /\ fs' = same.st.fs
                  /\ trashArea' = same.st.trash
                  /\ records' = same.st.records
                  /\ OthersOf(batch'.succeeded, inputs) = AllOf(same.succeeded)
                  /\ OthersOf(batch'.failed, inputs) = AllOf(same.failed)
            /\ others = <<>> =>
                  /\ trashArea' = trashArea
                  /\ records' = records
                  /\ \A q \in DOMAIN fs : q \in DOMAIN fs' /\ fs'[q] = fs[q]
                  /\ \A q \in DOMAIN fs' \ DOMAIN fs :
                        /\ batch'.op \in {"move", "copy"}
                        /\ q \in Prefixes(normalizeAPIPath(last'.path))

(* C19: an input of Move, Copy, Delete or Restore that normalizes to "/"   *)
(* has a failed entry whose message names the root path, changes nothing   *)
(* in the tree, the trash area or the records, and the other inputs of the *)
(* call fare as in the same call without it.                               *)
RootRejected == [][RootStep({"move", "copy", "delete", "restore"})]_vars

\* the same of Move, Delete and Restore alone
RootRejectedButCopy == [][RootStep({"move", "delete", "restore"})]_vars

\* Move was called with "/" and the directory /d to the new directory /b:
\* the root has its failed entry and /d is at /b/d
RootRejectedWitness ==
    /\ batch.op = "move"
    /\ batch.inputs = <<RootPath, <<<<"d">>>>>>
    /\ Len(batch.failed) = 1
    /\ batch.failed[1] = [idx |-> 1, from |-> RootPath, reason |-> "root path cannot be moved"]
    /\ Len(batch.succeeded) = 1
    /\ Exists(fs, <<<<"b">>, <<"d">>, <<"a">>>>)

\* Copy was called with "/" to the destination "/" under overwrite: nothing
\* is left below the root, and the root itself is gone
RootCopiedOver ==
    /\ batch.op = "copy"
    /\ batch.inputs = <<RootPath>>
    /\ last.path = RootPath
    /\ last.record.policy = "overwrite"
    /\ batch.err = NoErr
    /\ DOMAIN fs = {}

\* what the items of a batch call came to, in the order the loop took them
\* up: the status and the path of each
ItemOutcomes(b) ==
    [k \in 1..Len(b.attempted) |->
        LET i == b.attempted[k]
            done == SelectSeq(b.succeeded, LAMBDA e : e.idx = i)
            lost == SelectSeq(b.failed, LAMBDA e : e.idx = i)
        IN  IF done # <<>> THEN [status |-> "success", resource |-> done[1].from]
            ELSE [status |-> "failed", resource |-> lost[1].from]]

AuditOutcomes(b) ==
    [k \in 1..Len(b.audit) |-> [status |-> b.audit[k].status, resource |-> b.audit[k].resource]]

BatchOps == {"move", "copy", "delete", "restore"}

\* C23: a batch call that has returned has written at least one audit
\* entry, and when it went through its items it has written one entry for
\* each item, of the item's path and outcome
AuditComplete ==
    batch.op \in BatchOps
        => /\ batch.audit # <<>>
           /\ batch.err = NoErr => AuditOutcomes(batch) = ItemOutcomes(batch)

\* C23 with the items that Move reports as moved because they are at their
\* target already set apart: those have no entry, every other item has one
AuditCompleteButInPlace ==
    (batch.op \in BatchOps /\ batch.err = NoErr)
        => AuditOutcomes(batch)
             = SelectSeq(ItemOutcomes(batch),
                         LAMBDA o : ~(/\ batch.op = "move"
                                      /\ \E j \in 1..Len(batch.succeeded) :
                                            /\ batch.succeeded[j].from = o.resource
                                            /\ batch.succeeded[j].to = o.resource))

\* a Move of /a into the root has returned /a as moved and written no
\* audit entry
MovedUnaudited ==
    /\ batch.op = "move"
    /\ batch.err = NoErr
    /\ batch.succeeded = <<[idx |-> 1, from |-> <<<<"a">>>>, to |-> <<<<"a">>>>]>>
    /\ batch.failed = <<>>
    /\ batch.audit = <<>>

-----------------------------------------------------------------------------
(* The conflict resolver called on its own, on trees that hold the desired *)
(* path and any of its candidate names.                                     *)

\* "base (index)ext" next to desiredPath
Candidate(desiredPath, index) ==
    Parent(desiredPath)
        \o <<TrimExt(Base(desiredPath)) \o <<ToString(index)>> \o Ext(Base(desiredPath))>>

\* the file the resolver is asked about and the names the rename policy
\* can give it
RenameTarget == <<<<"d">>, <<"a", ".t">>>>

RenameNames == {RenameTarget} \cup {Candidate(RenameTarget, i) : i \in 1..RenameLimit}

\* the trees: the root, the directory /d with any of the names above as
\* files "x", and the directory /b with the files /b/a.t "y" and /b/b "z"
ConflictTrees ==
    {[q \in {<<>>, <<<<"d">>>>, <<<<"b">>>>, <<<<"b">>, <<"a", ".t">>>>,
             <<<<"b">>, <<"b">>>>} \cup taken |->
         IF q \in {<<>>, <<<<"d">>>>, <<<<"b">>>>} THEN "dir"
         ELSE IF q = <<<<"b">>, <<"a", ".t">>>> THEN "y"
         ELSE IF q = <<<<"b">>, <<"b">>>> THEN "z"
         ELSE "x"] : taken \in SUBSET RenameNames}

\* the desired paths: the file, a directory with content, a path below a
\* file, a path with nothing at it
DesiredPaths ==
    {RenameTarget, <<<<"b">>>>, RenameTarget \o <<<<"a">>>>, <<<<"m">>>>}

ConflictPolicies == {"", "rename", "skip", "SKIP", "overwrite", "merge"}

\* one call of resolveConflictTarget
CResolve ==
    /\ opCount < MaxOps
    /\ \E desiredPath \in DesiredPaths, policy \in ConflictPolicies :
          LET r == resolveConflictTarget(fs, desiredPath, policy)
          IN  /\ fs' = r.fs
              /\ last' = [NoCall EXCEPT
                            !.op = "resolve", !.path = desiredPath, !.err = r.err,
                            !.record = [policy |-> policy, path |-> r.path,
                                        skipped |-> r.skipped]]
    /\ opCount' = opCount + 1
    /\ UNCHANGED <<pvVars, trashArea, records, nextUuid, clock, tally, batch, jobVars,
                   resolving>>

\* the sources and destinations of a Move or Copy of one item: the target
\* is /d/a.t, /b/a.t (the source itself), /a.t, /d/b, /b/b, /b (the directory
\* that holds the source), /d/m, /b/m or /m; the source /m/a.t is not there
\* and has the name of the files /b/a.t and /d/a.t
ItemSources ==
    {<<<<"b">>, <<"a", ".t">>>>, <<<<"b">>, <<"b">>>>, <<<<"m">>>>, <<<<"m">>, <<"a", ".t">>>>}

ItemDestinations == {<<<<"d">>>>, <<<<"b">>>>, RootPath}

\* Move of one item
CMove ==
    /\ opCount < MaxOps
    /\ \E source \in ItemSources, destination \in ItemDestinations,
          policy \in ConflictPolicies :
          LET r == Move(St, <<source>>, destination, policy)
          IN  /\ SetSt(r.st)
              /\ batch' = BatchCall("move", <<source>>,
                                    PassesValidation(fs, destination, policy), r)
              /\ last' = Asked("move", destination, policy)
    /\ opCount' = opCount + 1
    /\ UNCHANGED <<pvVars, tally, jobVars, resolving>>

\* Copy of one item
CCopy ==
    /\ opCount < MaxOps
    /\ \E source \in ItemSources, destination \in ItemDestinations,
          policy \in ConflictPolicies :
          LET r == Copy(St, <<source>>, destination, policy)
          IN  /\ SetSt(r.st)
              /\ batch' = BatchCall("copy", <<source>>,
                                    PassesValidation(fs, destination, policy), r)
              /\ last' = Asked("copy", destination, policy)
    /\ opCount' = opCount + 1
    /\ UNCHANGED <<pvVars, tally, jobVars, resolving>>

ResolveNext == CResolve \/ CMove \/ CCopy

ResolveInit ==
    /\ pvPc = "idle"
    /\ pvIn = <<>>
    /\ pvOut = NoResolve
    /\ pvTouched = {}
    /\ fs \in ConflictTrees
    /\ trashArea = <<>>
    /\ records = <<>>
    /\ nextUuid = 1
    /\ clock = 1
    /\ last = NoCall
    /\ opCount = 0
    /\ tally = NoTally
    /\ batch = NoBatchCall
    /\ jobs = <<>>
    /\ requests = <<>>
    /\ queue = <<>>
    /\ worker = IdleWorker
    /\ creating = {}
    /\ channels = <<>>
    /\ subscribers = <<>>
    /\ ghost = NoGhost
    /\ resolving = <<>>

SpecResolve == ResolveInit /\ [][ResolveNext]_vars

\* the step is a call of the resolver with a policy that normalizes to
\* wanted on a desired path that exists
ResolvedExisting(wanted) ==
    /\ last'.op = "resolve"
    /\ normalizeConflictPolicy(last'.record.policy) = wanted
    /\ Exists(fs, last'.path)

(* C12: on an existing path the rename policy changes nothing in the tree  *)
(* and returns, not skipped, the name "base (N)ext" in the same directory  *)
(* for the smallest N in 1..RenameLimit at which nothing exists; when      *)
(* every such name exists it returns CONFLICT.                             *)
RenameStep ==
    ResolvedExisting("rename") =>
        LET free == {n \in 1..RenameLimit : ~Exists(fs, Candidate(last'.path, n))}
        IN  /\ fs' = fs
            /\ ~last'.record.skipped
            /\ free = {} => last'.err = "CONFLICT"
            /\ free # {} =>
                  /\ last'.err = NoErr
                  /\ \E n \in free :
                        /\ \A k \in free : n <= k
                        /\ last'.record.path = Candidate(last'.path, n)

PolicyRename == [][RenameStep]_vars

\* /d/a.t and /d/a (1).t exist: the call has returned /d/a (2).t
PolicyRenameWitness ==
    /\ last.op = "resolve"
    /\ last.record.policy = ""
    /\ last.path = RenameTarget
    /\ Exists(fs, RenameTarget)
    /\ Exists(fs, Candidate(RenameTarget, 1))
    /\ last.record.path = <<<<"d">>, <<"a", "2", ".t">>>>

\* every candidate name exists: the call has returned CONFLICT
RenameExhaustedWitness ==
    /\ last.op = "resolve"
    /\ last.record.policy = "rename"
    /\ \A q \in RenameNames : Exists(fs, q)
    /\ last.err = "CONFLICT"


\* the step is a Move or Copy of one item that came to the resolver with a
\* policy that normalizes to wanted, and whose target exists
ItemSource == normalizeAPIPath(batch'.inputs[1])

ItemTarget == normalizeAPIPath(normalizeAPIPath(last'.path) \o <<Base(ItemSource)>>)

ItemResolvedExisting(wanted) ==
    /\ last'.op \in {"move", "copy"}
    /\ batch'.err = NoErr
    /\ normalizeConflictPolicy(last'.record.policy) = wanted
    /\ last'.op = "move" => ItemSource # RootPath /\ ItemSource # ItemTarget
    /\ last'.op = "copy" => Exists(fs, ItemSource)
    /\ Exists(fs, ItemTarget)

(* C13: on an existing path the skip policy returns skipped and changes    *)
(* nothing in the tree; a Move or Copy item whose target exists then       *)
(* leaves the source and the target as they were and is reported in the    *)
(* failed list with the reason "skipped: target already exists".           *)
SkipStep ==
    /\ ResolvedExisting("skip") =>
          /\ last'.record.skipped
          /\ last'.err = NoErr
          /\ fs' = fs
    /\ ItemResolvedExisting("skip") =>
          /\ fs' = fs
          /\ batch'.succeeded = <<>>
          /\ batch'.failed = <<[idx |-> 1, from |-> ItemSource,
                                reason |-> "skipped: target already exists"]>>

PolicySkip == [][SkipStep]_vars

\* /b/a.t was to be moved to /d, where a.t exists: both files are as they
\* were and the item is in the failed list
PolicySkipWitness ==
    /\ last.op = "move"
    /\ last.record.policy = "SKIP"
    /\ last.path = <<<<"d">>>>
    /\ batch.inputs = <<<<<<"b">>, <<"a", ".t">>>>>>
    /\ Exists(fs, RenameTarget) /\ fs[RenameTarget] = "x"
    /\ Exists(fs, <<<<"b">>, <<"a", ".t">>>>) /\ fs[<<<<"b">>, <<"a", ".t">>>>] = "y"
    /\ Len(batch.failed) = 1
    /\ batch.failed[1].reason = "skipped: target already exists"


\* the step is a Move of one existing item, with a policy that normalizes
\* to overwrite, onto an existing target other than the item itself
MovedOnto ==
    /\ last'.op = "move"
    /\ ItemResolvedExisting("overwrite")
    /\ Exists(fs, ItemSource)

\* after the step the target holds what the source held and nothing is at
\* the source
SourceNowAtTarget ==
    /\ ~Exists(fs', ItemSource)
    /\ SubTree(fs', ItemTarget) = SubTree(fs, ItemSource)

(* C14: on an existing path the overwrite policy removes the path with all *)
(* below it and returns the path, not skipped; a Move of an existing       *)
(* source with that policy onto an existing target ends with the target    *)
(* holding the source's content and nothing at the source.                 *)
OverwriteStep ==
    /\ ResolvedExisting("overwrite") =>
          /\ last'.err = NoErr
          /\ ~last'.record.skipped
          /\ last'.record.path = last'.path
          /\ DOMAIN fs' = {q \in DOMAIN fs : ~IsUnder(q, last'.path)}
          /\ \A q \in DOMAIN fs' : fs'[q] = fs[q]
    /\ MovedOnto => SourceNowAtTarget

PolicyOverwrite == [][OverwriteStep]_vars

\* the same with the targets that hold the source left out
OverwriteApartStep ==
    /\ ResolvedExisting("overwrite") =>
          /\ last'.err = NoErr
          /\ ~last'.record.skipped
          /\ last'.record.path = last'.path
          /\ DOMAIN fs' = {q \in DOMAIN fs : ~IsUnder(q, last'.path)}
          /\ \A q \in DOMAIN fs' : fs'[q] = fs[q]
    /\ (MovedOnto /\ ~IsUnder(ItemSource, ItemTarget)) =>
          /\ SourceNowAtTarget
          /\ batch'.failed = <<>>
          /\ batch'.succeeded = <<[idx |-> 1, from |-> ItemSource, to |-> ItemTarget]>>
    /\ (MovedOnto /\ IsUnder(ItemSource, ItemTarget)) =>
          /\ ~Exists(fs', ItemTarget)
          /\ Len(batch'.failed) = 1
          /\ batch'.succeeded = <<>>

PolicyOverwriteApart == [][OverwriteApartStep]_vars

\* /b/a.t "y" was moved onto /d/a.t "x": /d/a.t holds "y", /b/a.t is gone
PolicyOverwriteWitness ==
    /\ last.op = "move"
    /\ last.record.policy = "overwrite"
    /\ last.path = <<<<"d">>>>
    /\ batch.inputs = <<<<<<"b">>, <<"a", ".t">>>>>>
    /\ Len(batch.succeeded) = 1
    /\ Exists(fs, RenameTarget) /\ fs[RenameTarget] = "y"
    /\ ~Exists(fs, <<<<"b">>, <<"a", ".t">>>>)

\* /b/b was moved to the root, onto the directory /b that held it: /b and
\* all that was in it are gone and the item is in the failed list
OverwriteLoss ==
    /\ last.op = "move"
    /\ last.record.policy = "overwrite"
    /\ last.path = RootPath
    /\ batch.inputs = <<<<<<"b">>, <<"b">>>>>>
    /\ Len(batch.failed) = 1
    /\ \A q \in DOMAIN fs : ~IsUnder(q, <<<<"b">>>>)

\* the step is a Move or a Copy of one item that passed the checks of the
\* whole call and ended in the failed list
ItemFailedStep ==
    /\ batch'.op \in {"move", "copy"}
    /\ batch' # batch
    /\ batch'.valid
    /\ batch'.err = NoErr
    /\ Len(batch'.failed) = 1

\* C36: a Move or Copy item that ends in the failed list leaves the tree
\* as it was before the item was attempted; under the overwrite policy a
\* target that existed before the item is still there with its content
\* when the item fails
FailedItemStep == ItemFailedStep => fs' = fs

FailedChangesNothing == [][FailedItemStep]_vars

\* C36 under the policies other than overwrite
FailedItemKeptStep ==
    (ItemFailedStep /\ normalizeConflictPolicy(last'.record.policy) # "overwrite")
        => fs' = fs

FailedChangesNothingUnlessOverwrite == [][FailedItemKeptStep]_vars

\* the Move of /m/a.t, which is not there, to /b under overwrite ended in
\* the failed list, and the file /b/a.t every tree starts with is gone
TargetLostOnFailure ==
    /\ last.op = "move"
    /\ last.record.policy = "overwrite"
    /\ last.path = <<<<"b">>>>
    /\ batch.inputs = <<<<<<"m">>, <<"a", ".t">>>>>>
    /\ batch.succeeded = <<>>
    /\ Len(batch.failed) = 1
    /\ ~Exists(fs, <<<<"b">>, <<"a", ".t">>>>)

\* every input of the call of the step that was there before the step is
\* there after it with what it held
SourcesKept ==
    \A k \in 1..Len(batch'.inputs) :
       LET source == normalizeAPIPath(batch'.inputs[k])
       IN  Exists(fs, source)
               => /\ Exists(fs', source)
                  /\ SubTree(fs', source) = SubTree(fs, source)

\* C37: after Copy returns, every source path that existed before the call
\* still exists with the same content, under every conflict policy and for
\* every destination, a destination that is the source's own parent
\* directory included
CopyKeepsSourcesStep == (batch'.op = "copy" /\ batch' # batch) => SourcesKept

CopyKeepsSources == [][CopyKeepsSourcesStep]_vars

\* C37 for the calls whose policy is not overwrite or whose target is not
\* the source and does not hold it
CopyKeepsSourcesApartStep ==
    (/\ batch'.op = "copy"
     /\ batch' # batch
     /\ \/ normalizeConflictPolicy(last'.record.policy) # "overwrite"
        \/ \A k \in 1..Len(batch'.inputs) :
              ~IsUnder(normalizeAPIPath(batch'.inputs[k]),
                       normalizeAPIPath(last'.path)
                           \o <<Base(normalizeAPIPath(batch'.inputs[k]))>>))
        => SourcesKept

CopyKeepsSourcesApart == [][CopyKeepsSourcesApartStep]_vars

\* the Copy of /b/a.t to /b, the directory that holds it, under overwrite
\* has returned: the file is gone and the item is in the failed list
SourceLostByCopy ==
    /\ last.op = "copy"
    /\ last.record.policy = "overwrite"
    /\ last.path = <<<<"b">>>>
    /\ batch.inputs = <<<<<<"b">>, <<"a", ".t">>>>>>
    /\ batch.err = NoErr
    /\ Len(batch.failed) = 1
    /\ ~Exists(fs, <<<<"b">>, <<"a", ".t">>>>)

-----------------------------------------------------------------------------
(* Calls of resolveConflictTarget running side by side: each file-system   *)
(* call of the resolver is one step, and what lies between two of them is   *)
(* local to the call.                                                       *)

\* calls that may run side by side
MaxCalls == 2

RaceSeed == SeedFs

\* a path with nothing at it, one below a directory, a file, a directory
RacePaths == {<<<<"m">>>>, <<<<"d">>, <<"m">>>>, <<<<"a">>>>, <<<<"d">>>>}

RacePolicies == {"", "skip", "overwrite", "merge"}

Returned(call, path, skipped, err) ==
    [call EXCEPT !.pc = "done",
                 !.out = [path |-> path, skipped |-> skipped, err |-> err]]

\* the return of the resolver when nothing is at the desired path
NoConflictReserving(f, call) ==
    [fs |-> Graft(f, call.desiredPath, <<>> :> "x"),
     call |-> Returned(call, call.desiredPath, FALSE, NoErr)]

NoConflict(f, call) ==
    [fs |-> f, call |-> Returned(call, call.desiredPath, FALSE, NoErr)]

\* the call is made: normalizeConflictPolicy
RBegin ==
    /\ Len(resolving) < MaxCalls
    /\ \E desiredPath \in RacePaths, policy \in RacePolicies :
          LET call == [pc |-> "stat", desiredPath |-> desiredPath,
                       policy |-> normalizeConflictPolicy(policy), index |-> 1,
                       absent |-> StatErr(fs, desiredPath) = "ENOENT",
                       wrote |-> FALSE,
                       out |-> [path |-> <<>>, skipped |-> FALSE, err |-> NoErr]]
          IN  resolving' = Append(resolving,
                  IF call.policy = "BAD_REQUEST"
                  THEN Returned(call, <<>>, FALSE, "BAD_REQUEST")
                  ELSE call)
    /\ UNCHANGED <<pvVars, engVars, callVars, batch, jobVars>>

\* store.Stat(desiredPath) and the switch on the policy
RStat ==
    \E c \in DOMAIN resolving :
        LET call == resolving[c]
            statErr == StatErr(fs, call.desiredPath)
        IN  /\ call.pc = "stat"
            /\ IF statErr = "ENOENT"
               THEN /\ fs' = NoConflict(fs, call).fs
                    /\ resolving' = [resolving EXCEPT ![c] = NoConflict(fs, call).call]
               ELSE /\ fs' = fs
                    /\ resolving' = [resolving EXCEPT ![c] =
                          IF statErr # NoErr THEN Returned(call, <<>>, FALSE, statErr)
                          ELSE IF call.policy = "skip" THEN Returned(call, <<>>, TRUE, NoErr)
                          ELSE IF call.policy = "overwrite" THEN [call EXCEPT !.pc = "remove"]
                          ELSE [call EXCEPT !.pc = "next"]]
            /\ UNCHANGED <<pvVars, trashArea, records, nextUuid, clock, callVars, batch,
                           jobVars>>

\* store.RemoveAll(desiredPath)
RRemove ==
    \E c \in DOMAIN resolving :
        LET call == resolving[c]
        IN  /\ call.pc = "remove"
            /\ fs' = OsRemoveAll(fs, call.desiredPath)
            /\ resolving' = [resolving EXCEPT ![c] =
                  [Returned(call, call.desiredPath, FALSE, NoErr) EXCEPT !.wrote = TRUE]]
            /\ UNCHANGED <<pvVars, trashArea, records, nextUuid, clock, callVars, batch,
                           jobVars>>

\* one pass of the rename loop: store.Stat(nextPath)
RNext ==
    \E c \in DOMAIN resolving :
        LET call == resolving[c]
            nextPath == normalizeAPIPath(Candidate(call.desiredPath, call.index))
            nextStatErr == StatErr(fs, nextPath)
        IN  /\ call.pc = "next"
            /\ resolving' = [resolving EXCEPT ![c] =
                  IF nextStatErr = "ENOENT" THEN Returned(call, nextPath, FALSE, NoErr)
                  ELSE IF nextStatErr # NoErr THEN Returned(call, <<>>, FALSE, nextStatErr)
                  ELSE IF call.index = RenameLimit
                  THEN Returned(call, <<>>, FALSE, "CONFLICT")
                  ELSE [call EXCEPT !.index = @ + 1]]
            /\ UNCHANGED <<pvVars, engVars, callVars, batch, jobVars>>

RaceNext == RBegin \/ RStat \/ RRemove \/ RNext

RaceInit ==
    /\ pvPc = "idle"
    /\ pvIn = <<>>
    /\ pvOut = NoResolve
    /\ pvTouched = {}
    /\ fs = RaceSeed
    /\ trashArea = <<>>
    /\ records = <<>>
    /\ nextUuid = 1
    /\ clock = 1
    /\ last = NoCall
    /\ opCount = 0
    /\ tally = NoTally
    /\ batch = NoBatchCall
    /\ jobs = <<>>
    /\ requests = <<>>
    /\ queue = <<>>
    /\ worker = IdleWorker
    /\ creating = {}
    /\ channels = <<>>
    /\ subscribers = <<>>
    /\ ghost = NoGhost
    /\ resolving = <<>>

SpecRace == RaceInit /\ [][RaceNext]_vars

(* C15: of two calls of the resolver made on the same path while nothing   *)
(* was at it, each with a valid policy, neither writes to the tree, and    *)
(* each returns the desired path as it is, not skipped and without error,  *)
(* however their steps interleave.                                          *)
ConcurrentNoConflict ==
    \A c1, c2 \in DOMAIN resolving :
        (/\ c1 # c2
         /\ resolving[c1].desiredPath = resolving[c2].desiredPath
         /\ resolving[c1].absent /\ resolving[c2].absent
         /\ resolving[c1].policy # "BAD_REQUEST" /\ resolving[c2].policy # "BAD_REQUEST") =>
            /\ ~resolving[c1].wrote
            /\ resolving[c1].pc = "done" =>
                  resolving[c1].out = [path |-> resolving[c1].desiredPath,
                                       skipped |-> FALSE, err |-> NoErr]

\* two calls on /d/m, one with skip and one with overwrite, both made before
\* either looked at the tree, have both returned
ConcurrentNoConflictWitness ==
    /\ Len(resolving) = 2
    /\ resolving[1].desiredPath = <<<<"d">>, <<"m">>>>
    /\ resolving[2].desiredPath = <<<<"d">>, <<"m">>>>
    /\ resolving[1].policy = "skip" /\ resolving[2].policy = "overwrite"
    /\ resolving[1].pc = "done" /\ resolving[2].pc = "done"
    /\ fs = RaceSeed

-----------------------------------------------------------------------------
(* Compress called on trees with and without a file at the archive's path. *)

\* the seeded tree; the same with a file /z.zip; the same with a directory
\* /b and a file /b/z.zip
CompressTrees ==
    {SeedFs,
     [q \in DOMAIN SeedFs \cup {<<<<"z", ".zip">>>>} |->
         IF q \in DOMAIN SeedFs THEN SeedFs[q] ELSE "old"],
     [q \in DOMAIN SeedFs \cup {<<<<"b">>>>, <<<<"b">>, <<"z", ".zip">>>>} |->
         IF q \in DOMAIN SeedFs THEN SeedFs[q]
         ELSE IF q = <<<<"b">>>> THEN "dir" ELSE "old"]}

\* a file, a directory, a path with nothing at it, a path Resolve rejects
CompressPaths == {<<<<"a">>>>, <<<<"d">>>>, <<<<"m">>>>, <<CtrlElem>>}

CompressSources == ListsUpTo(CompressPaths, MaxBatch) \ {<<>>}

CompressDestinations == {RootPath, <<<<"b">>>>}

CompressNames == {"z", ""}

\* one call of Compress
CCompress ==
    /\ opCount < MaxOps
    /\ \E sources \in CompressSources, destination \in CompressDestinations,
          name \in CompressNames :
          \E failAt \in 0..Len(sources) :
              LET r == Compress(St, sources, destination, name, failAt)
              IN  /\ SetSt(r.st)
                  /\ batch' = [NoBatchCall EXCEPT !.op = "compress", !.inputs = sources,
                                                   !.err = r.err]
                  /\ last' = [NoCall EXCEPT
                                !.op = "compress", !.path = destination, !.err = r.err,
                                !.record = [name |-> name, path |-> r.path,
                                            failAt |-> failAt]]
    /\ opCount' = opCount + 1
    /\ UNCHANGED <<pvVars, tally, jobVars, resolving>>

CompressNext == CCompress

CompressInit ==
    /\ pvPc = "idle"
    /\ pvIn = <<>>
    /\ pvOut = NoResolve
    /\ pvTouched = {}
    /\ fs \in CompressTrees
    /\ trashArea = <<>>
    /\ records = <<>>
    /\ nextUuid = 1
    /\ clock = 1
    /\ last = NoCall
    /\ opCount = 0
    /\ tally = NoTally
    /\ batch = NoBatchCall
    /\ jobs = <<>>
    /\ requests = <<>>
    /\ queue = <<>>
    /\ worker = IdleWorker
    /\ creating = {}
    /\ channels = <<>>
    /\ subscribers = <<>>
    /\ ghost = NoGhost
    /\ resolving = <<>>

SpecCompress == CompressInit /\ [][CompressNext]_vars

\* the path of the archive of the call of the step
ArchiveTarget == normalizeAPIPath(last'.path) \o <<<<last'.record.name, ".zip">>>>

\* the step is a call of Compress with a name that gives an archive path
CompressCalled == last'.op = "compress" /\ last'.record.name # ""

\* what a call that returned an error leaves at the archive's path: no new
\* file, and a file that was there as it was
NothingNew ==
    /\ Exists(fs', ArchiveTarget) => Exists(fs, ArchiveTarget)
    /\ Exists(fs, ArchiveTarget) =>
          Exists(fs', ArchiveTarget) /\ fs'[ArchiveTarget] = fs[ArchiveTarget]

\* the archive at the path holds the entries of every source of the call
HoldsEverySource ==
    /\ \A i \in 1..Len(batch'.inputs) : Exists(fs, normalizeAPIPath(batch'.inputs[i]))
    /\ fs'[ArchiveTarget] =
          CompressLoop(fs, [i \in 1..Len(batch'.inputs) |->
                               normalizeAPIPath(batch'.inputs[i])],
                       ArchiveTarget, 1, "zip:", 0).fs[ArchiveTarget]

(* C20: when Compress returns an error, no new file is at the archive's    *)
(* path and a file that was there is as it was; a new archive is at the    *)
(* path after the call only when Compress returned without error, and it   *)
(* then holds every source.                                                 *)
CompressStep ==
    CompressCalled =>
        /\ last'.err # NoErr => NothingNew
        /\ (Exists(fs', ArchiveTarget) /\ ~Exists(fs, ArchiveTarget)) =>
              last'.err = NoErr /\ HoldsEverySource

CompressAllOrNothing == [][CompressStep]_vars

\* what holds: the errors found before the archive is created leave
\* nothing new, and a call without error leaves an archive of every source
CompressBeforeCreateStep ==
    CompressCalled =>
        /\ last'.err \in {"BAD_REQUEST", "INVALID_PATH", "PATH_TRAVERSAL", "mkdir",
                         "INVALID_FILENAME", "ALREADY_EXISTS", "create"} => NothingNew
        /\ last'.err = NoErr =>
              /\ ~Exists(fs, ArchiveTarget)
              /\ Exists(fs', ArchiveTarget)
              /\ HoldsEverySource
              /\ last'.record.path = ArchiveTarget

CompressBeforeCreate == [][CompressBeforeCreateStep]_vars

\* Compress of /a and the missing /m into /z.zip has returned an error, and
\* /z.zip is a new archive with the entry of /a alone
PartialArchiveLeft ==
    /\ last.op = "compress"
    /\ batch.inputs = <<<<<<"a">>>>, <<<<"m">>>>>>
    /\ last.path = RootPath
    /\ last.err = "no such file or directory"
    /\ Exists(fs, <<<<"z", ".zip">>>>)
    /\ fs[<<<<"z", ".zip">>>>] = "zip:a;"

\* Compress of /d and /a into /b/z.zip has returned without error
CompressDoneWitness ==
    /\ last.op = "compress"
    /\ batch.inputs = <<<<<<"d">>>>, <<<<"a">>>>>>
    /\ last.err = NoErr
    /\ last.record.path = <<<<"b">>, <<"z", ".zip">>>>
    /\ fs[<<<<"b">>, <<"z", ".zip">>>>] = "zip:d/;d/a;a;"

-----------------------------------------------------------------------------
(* Decompress called on trees that hold an archive.                        *)

ArchivePath == <<<<"z", ".zip">>>>

\* the seeded tree with one of the archives at /z.zip
DecompressTrees ==
    {[q \in DOMAIN SeedFs \cup {ArchivePath} |->
         IF q \in DOMAIN SeedFs THEN SeedFs[q] ELSE content] :
        content \in DOMAIN ZipTable}

\* the archive, a file that is no archive, a path with nothing at it
DecompressSources == {ArchivePath, <<<<"a">>>>, <<<<"m">>>>}

\* a directory with a file a in it, a directory that is not there yet, the
\* root, a path Resolve rejects
DecompressDestinations == {<<<<"d">>>>, <<<<"b">>>>, RootPath, <<CtrlElem>>}

\* the policy is compared as it was sent
DecompressPolicies == {"", "overwrite", "skip", "OVERWRITE"}

\* one call of Decompress
CDecompress ==
    /\ opCount < MaxOps
    /\ \E source \in DecompressSources, destination \in DecompressDestinations,
          conflictPolicy \in DecompressPolicies :
          LET r == Decompress(St, source, destination, conflictPolicy)
          IN  /\ SetSt(r.st)
              /\ batch' = [NoBatchCall EXCEPT !.op = "decompress", !.inputs = <<source>>,
                                               !.err = r.err, !.audit = r.audit]
              /\ last' = [NoCall EXCEPT
                            !.op = "decompress", !.path = destination, !.err = r.err,
                            !.record = [source |-> source, policy |-> conflictPolicy,
                                        conflicts |-> r.conflicts, files |-> r.files]]
    /\ opCount' = opCount + 1
    /\ UNCHANGED <<pvVars, tally, jobVars, resolving>>

DecompressNext == CDecompress

DecompressInit ==
    /\ pvPc = "idle"
    /\ pvIn = <<>>
    /\ pvOut = NoResolve
    /\ pvTouched = {}
    /\ fs \in DecompressTrees
    /\ trashArea = <<>>
    /\ records = <<>>
    /\ nextUuid = 1
    /\ clock = 1
    /\ last = NoCall
    /\ opCount = 0
    /\ tally = NoTally
    /\ batch = NoBatchCall
    /\ jobs = <<>>
    /\ requests = <<>>
    /\ queue = <<>>
    /\ worker = IdleWorker
    /\ creating = {}
    /\ channels = <<>>
    /\ subscribers = <<>>
    /\ ghost = NoGhost
    /\ resolving = <<>>

SpecDecompress == DecompressInit /\ [][DecompressNext]_vars

\* the entries of the archive a call was given, as the tree before held them
ZipEntriesOf(f, source) == ZipOpenReader(f, normalizeAPIPath(source)).files

\* the path an entry is decoded to below the destination
EntryPath(destination, entry) == ZipJoin(normalizeAPIPath(destination), entry.name)

\* the entries that lie on an existing path below the destination, in
\* archive order
Colliding(f, destination, files) ==
    SelectSeq([i \in 1..Len(files) |-> files[i]],
              LAMBDA e : /\ EntryPath(destination, e).legal
                         /\ Exists(f, EntryPath(destination, e).fpath))

HasEscapingEntry(destination, files) ==
    \E i \in 1..Len(files) : ~EntryPath(destination, files[i]).legal

DecompressCalled == last'.op = "decompress" /\ opCount' = opCount + 1

\* C21: Decompress under a policy other than overwrite, on an archive of
\* which an entry lies on an existing path of the destination, returns
\* CONFLICT with the names of exactly the colliding entries, and leaves
\* the tree as it was
PreflightStep ==
    LET files == ZipEntriesOf(fs, last'.record.source)
        hit == Colliding(fs, last'.path, files)
    IN  (/\ DecompressCalled
         /\ last'.record.policy # "overwrite"
         /\ ResolveErr(normalizeAPIPath(last'.path)) = NoErr
         /\ hit # <<>>)
        => /\ last'.err = "CONFLICT"
           /\ last'.record.conflicts = [i \in 1..Len(hit) |-> hit[i].name]
           /\ fs' = fs

PreflightApartStep ==
    LET files == ZipEntriesOf(fs, last'.record.source)
        hit == Colliding(fs, last'.path, files)
    IN  (/\ DecompressCalled
         /\ last'.record.policy # "overwrite"
         /\ ResolveErr(normalizeAPIPath(last'.path)) = NoErr
         /\ hit # <<>>)
        => /\ fs' = fs
           /\ IF HasEscapingEntry(last'.path, files)
              THEN last'.err = "illegal file path" /\ last'.record.conflicts = <<>>
              ELSE /\ last'.err = "CONFLICT"
                   /\ last'.record.conflicts = [i \in 1..Len(hit) |-> hit[i].name]

PreflightIllegal ==
    /\ last.op = "decompress"
    /\ last.record.policy = "skip"
    /\ last.path = <<<<"d">>>>
    /\ last.err = "illegal file path"
    /\ fs[ArchivePath] = "zip:a;../a;"

\* the tree a call leaves when it extracts nothing: the tree before it with
\* the destination directory made
NothingExtracted(f, destination) == StorageMkdirAllFs(f, normalizeAPIPath(destination)).fs

\* a call was given an archive of which an entry decodes outside the
\* destination
EscapingCall ==
    /\ DecompressCalled
    /\ ResolveErr(normalizeAPIPath(last'.path)) = NoErr
    /\ HasEscapingEntry(last'.path, ZipEntriesOf(fs, last'.record.source))

\* C22: Decompress of an archive that holds an entry decoding outside the
\* destination returns an error under every policy and extracts none of
\* the archive's entries, inside the destination or outside it
ZipSlipStep ==
    EscapingCall => /\ last'.err # NoErr
                    /\ fs' = NothingExtracted(fs, last'.path)

\* C22: an archive with an escaping entry is refused and nothing of it is
\* extracted, in every step
ZipSlipAborts == [][ZipSlipStep]_vars

\* C22 for the policies that run the pre-flight
ZipSlipPreflightStep ==
    (EscapingCall /\ last'.record.policy # "overwrite")
        => /\ last'.err = "illegal file path"
           /\ fs' = NothingExtracted(fs, last'.path)

ZipSlipAbortsPreflight == [][ZipSlipPreflightStep]_vars

\* C22 for the part that holds under overwrite too: an error is returned
\* and no path outside the destination is written
ZipSlipContainedStep ==
    EscapingCall
        => /\ last'.err = "illegal file path"
           /\ \A q \in DOMAIN fs' :
                  (q \notin DOMAIN fs \/ fs'[q] # fs[q])
                      => IsUnder(q, normalizeAPIPath(last'.path))

ZipSlipContained == [][ZipSlipContainedStep]_vars

\* under overwrite the entry before the escaping one was written over the
\* file of the destination, and the call returned the error
ZipSlipPartial ==
    /\ last.op = "decompress"
    /\ last.record.policy = "overwrite"
    /\ last.path = <<<<"d">>>>
    /\ last.err = "illegal file path"
    /\ fs[ArchivePath] = "zip:a;../a;"
    /\ fs[<<<<"d">>, <<"a">>>>] = "new"
    /\ fs[<<<<"a">>>>] = "x"

-----------------------------------------------------------------------------
(* The job orchestrator.  A job is [operation, status, policy, total,       *)
(* processed, success, failed, progress, startedAt, finishedAt, items]; a   *)
(* time of 0 is an unset time.  Job ids are handed out in the order of the  *)
(* inserts into the job table.                                              *)

Terminal == {"completed", "partial", "failed"}

BlankDestination == <<<<"sp">>>>

\* strings.ToLower on the spellings of an operation: a request's operation
\* is a sequence of white space and words
ToLower(s) ==
    [i \in 1..Len(s) |-> IF s[i] \in {"COPY", "Copy"} THEN "copy"
                         ELSE IF s[i] = "Delete" THEN "delete"
                         ELSE s[i]]

\* strings.ToLower(strings.TrimSpace(request.Operation)); "" stands for
\* what is not one word
OperationOf(request) ==
    LET lowered == ToLower(TrimSpace(request.operation))
    IN  IF Len(lowered) = 1 THEN lowered[1] ELSE ""

\* CreateOperationJob taking every policy as known
ValidateJobRequestAnyPolicy(request) ==
    LET operation == OperationOf(request)
        total == IF operation \in {"delete", "restore"}
                 THEN Len(request.paths) ELSE Len(request.sources)
        out(e, policy) == [err |-> e, operation |-> operation, policy |-> policy,
                           total |-> total]
    IN  IF operation \notin {"copy", "move", "delete", "compress", "decompress"}
        THEN out("INVALID_INPUT", "")
        ELSE IF total = 0 THEN out("INVALID_INPUT", "")
        ELSE IF /\ operation \in {"copy", "move", "compress", "decompress"}
                /\ request.destination = BlankDestination
        THEN out("INVALID_INPUT", "")
        ELSE out(NoErr, request.policy)

\* the checks of CreateOperationJob: the error, or the job's operation,
\* normalized policy and total
ValidateJobRequest(request) ==
    LET operation == OperationOf(request)
        total == IF operation \in {"delete", "restore"}
                 THEN Len(request.paths) ELSE Len(request.sources)
        out(e, policy) == [err |-> e, operation |-> operation, policy |-> policy,
                           total |-> total]
    IN  IF operation \notin {"copy", "move", "delete", "compress", "decompress"}
        THEN out("INVALID_INPUT", "")
        ELSE IF total = 0 THEN out("INVALID_INPUT", "")
        ELSE IF /\ operation \in {"copy", "move", "compress", "decompress"}
                /\ request.destination = BlankDestination
        THEN out("INVALID_INPUT", "")
        ELSE IF operation \in {"copy", "move", "decompress"}
        THEN (IF normalizeConflictPolicy(request.policy) = "BAD_REQUEST"
              THEN out("BAD_REQUEST", "")
              ELSE out(NoErr, normalizeConflictPolicy(request.policy)))
        ELSE out(NoErr, request.policy)

\* the job CreateOperationJob puts into the table
NewJob(request, checked) ==
    [operation |-> checked.operation, status |-> "queued", policy |-> checked.policy,
     total |-> checked.total, processed |-> 0, success |-> 0, failed |-> 0,
     progress |-> 0, startedAt |-> 0, finishedAt |-> 0, items |-> <<>>]

JobUpdate(job) ==
    [status |-> job.status, progress |-> job.progress, processed |-> job.processed,
     total |-> job.total, success |-> job.success, failed |-> job.failed]

\* the receive of workerLoop: the oldest job id and the rest of the queue
DequeueLast(q) == [job |-> q[Len(q)], rest |-> SubSeq(q, 1, Len(q) - 1)]

DequeueKeep(q) == [job |-> Head(q), rest |-> IF Len(q) > 1 THEN Tail(q) ELSE q]

Dequeue(q) == [job |-> Head(q), rest |-> Tail(q)]

\* the sends of notifySubscribers to the channels subs, each a select with
\* a default branch: a full buffer keeps its content.  ok: the call returns.
RECURSIVE notifySubscribersBlocking(_, _, _)
notifySubscribersBlocking(chans, subs, update) ==
    IF subs = <<>> THEN [ok |-> TRUE, channels |-> chans]
    ELSE IF Len(chans[Head(subs)].buf) >= SubBufCap
    THEN [ok |-> FALSE, channels |-> chans]
    ELSE notifySubscribersBlocking(
             [chans EXCEPT ![Head(subs)].buf = Append(@, update)], Tail(subs), update)

RECURSIVE notifySubscribers(_, _, _)
notifySubscribers(chans, subs, update) ==
    IF subs = <<>> THEN [ok |-> TRUE, channels |-> chans]
    ELSE IF Len(chans[Head(subs)].buf) >= SubBufCap
    THEN notifySubscribers(chans, Tail(subs), update)
    ELSE notifySubscribers(
             [chans EXCEPT ![Head(subs)].buf = Append(@, update)], Tail(subs), update)

\* a path with the word skipped in one of its names
HoldsSkipped(p) ==
    \E i \in 1..Len(p) : \E k \in 1..Len(p[i]) : p[i][k] = "skipped"

\* the failures whose message quotes the source: the errors of rename(2)
\* and stat(2) and those of copyRecursive carry the path they were given
QuotesSource == {"rename", "no such file or directory", "copy"}

\* the items process builds from an engine result: the whole-call error
\* first, then the successes, then the failures, a failure whose reason
\* holds "skipped" as skipped.  The reason is searched as a text, the
\* paths it quotes included.
ItemStatus(failure) ==
    IF failure.reason = "skipped: target already exists" THEN "skipped"
    ELSE IF failure.reason \in QuotesSource /\ HoldsSkipped(failure.from)
    THEN "skipped"
    ELSE "failed"

JobItems(r, hasSkipped) ==
    (IF r.err # NoErr THEN <<[from |-> <<>>, status |-> "failed", reason |-> r.err]>>
     ELSE <<>>)
    \o [k \in 1..Len(r.succeeded) |->
           [from |-> r.succeeded[k].from, status |-> "success", reason |-> ""]]
    \o [k \in 1..Len(r.failed) |->
           [from |-> r.failed[k].from,
            status |-> IF hasSkipped THEN ItemStatus(r.failed[k]) ELSE "failed",
            reason |-> r.failed[k].reason]]

\* the engine call of process for the stored request; jobs run with the
\* zero actor
RunRequest(st, operation, request) ==
    IF operation = "copy"
    THEN Copy(st, request.sources, request.destination, request.policy)
    ELSE IF operation = "move"
    THEN Move(st, request.sources, request.destination, request.policy)
    ELSE IF operation = "delete"
    THEN Delete(st, request.paths, ZeroActor, [i \in 1..Len(request.paths) |-> FALSE])
    ELSE IF operation = "compress"
    THEN Compress(st, request.sources, request.destination, request.name, 0)
    ELSE IF Len(request.sources) = 0
    THEN [err |-> "no source file provided", files |-> <<>>, st |-> st]
    ELSE Decompress(st, request.sources[1], request.destination, request.policy)

\* the items process builds for the job's operation
ProcessItems(operation, r) ==
    IF operation \in {"copy", "move"} THEN JobItems(r, TRUE)
    ELSE IF operation = "delete" THEN JobItems(r, FALSE)
    ELSE IF r.err # NoErr THEN <<[from |-> <<>>, status |-> "failed", reason |-> r.err]>>
    ELSE IF operation = "compress"
    THEN <<[from |-> r.path, status |-> "success", reason |-> ""]>>
    ELSE [k \in 1..Len(r.files) |-> [from |-> r.files[k], status |-> "success", reason |-> ""]]

CountStatus(items, wanted) ==
    Cardinality({k \in 1..Len(items) : (items[k].status = "success") = wanted})

\* the status finalize gives a job
ClassifyFailedOnAnyFailure(successItems, failedItems) ==
    IF failedItems > 0 THEN "failed" ELSE "completed"

Classify(successItems, failedItems) ==
    IF successItems = 0 /\ failedItems > 0 THEN "failed"
    ELSE IF successItems > 0 /\ failedItems > 0 THEN "partial"
    ELSE "completed"

\* the job as finalize leaves it
Finalized(job, items, now) ==
    LET successItems == CountStatus(items, TRUE)
        failedItems == CountStatus(items, FALSE)
    IN  [job EXCEPT !.items = items,
                    !.processed = Len(items),
                    !.success = successItems,
                    !.failed = failedItems,
                    !.total = IF job.total <= 0 THEN Len(items) ELSE job.total,
                    !.progress = 100,
                    !.finishedAt = now,
                    !.status = Classify(successItems, failedItems)]

\* the requests clients submit: a copy of a file and of a missing path;
\* a copy under the skip policy into a directory still to be made, which
\* meets its target once it has run; a delete; a request of an operation
\* jobs do not run
JobRequests ==
    LET req(op, sources, paths, destination, policy) ==
            [operation |-> <<op>>, sources |-> sources, paths |-> paths,
             destination |-> destination, policy |-> policy, name |-> ""]
    IN  {req("copy", <<<<<<"a">>>>, <<<<"m">>>>>>, <<>>, <<<<"d">>>>, ""),
         req("copy", <<<<<<"a">>>>>>, <<>>, <<<<"b">>>>, "skip"),
         req("delete", <<>>, <<<<<<"a">>>>>>, <<>>, ""),
         req("restore", <<>>, <<<<<<"a">>>>>>, <<>>, "")}

\* a copy of a file and of a missing path, and the request of an operation
\* jobs do not run
CopyRequests ==
    {r \in JobRequests : r.operation = <<"restore">> \/ Len(r.sources) = 2}

\* finalize holds the job table's lock from its first line to its last
TableLocked == worker.pc \in {"fnotify", "fsending", "close"}

SubscribersOf(j) == IF j \in DOMAIN subscribers THEN subscribers[j] ELSE <<>>

\* what a caller of CreateOperationJob sent and got
Submitted(request, actor, e) ==
    [NoCall EXCEPT !.op = "submit", !.err = e,
                   !.record = [request |-> request, actor |-> actor]]

\* CreateOperationJob up to the insert into the job table, for a request
\* out of offered sent by one of callers; traced: what the caller sent is
\* kept
CreateOperationJob(offered, callers, traced) ==
    /\ ghost.calls < MaxJobs
    /\ \E request \in offered, actor \in callers :
          LET checked == ValidateJobRequest(request)
              id == Len(jobs) + 1
          IN  /\ last' = IF traced THEN Submitted(request, actor, checked.err) ELSE last
              /\ IF checked.err # NoErr
                 THEN /\ ghost' = [ghost EXCEPT !.calls = @ + 1]
                      /\ UNCHANGED <<jobs, requests, creating>>
                 ELSE /\ ~TableLocked
                      /\ jobs' = Append(jobs, NewJob(request, checked))
                      /\ requests' = [i \in DOMAIN requests \cup {id} |->
                                         IF i = id THEN request ELSE requests[i]]
                      /\ creating' = creating \cup {id}
                      /\ ghost' = [ghost EXCEPT
                                     !.calls = @ + 1,
                                     !.before = [i \in DOMAIN @ \cup {id} |->
                                                    IF i = id THEN ghost.returned ELSE @[i]],
                                     !.by = IF traced
                                            THEN [i \in DOMAIN @ \cup {id} |->
                                                     IF i = id THEN actor ELSE @[i]]
                                            ELSE @]
    /\ UNCHANGED <<pvVars, resolving, engVars, opCount, tally, batch, queue, worker, channels,
                   subscribers>>

JCreate == CreateOperationJob(JobRequests, Actors, FALSE)

\* the same call where the clients submit one kind of job, besides the
\* request that is turned down
JCreateCopy == CreateOperationJob(CopyRequests, Actors, FALSE)

\* the send on a queue that takes whatever is sent
JEnqueueUnbounded(capacity) ==
    /\ \E id \in creating :
          /\ queue' = Append(queue, id)
          /\ creating' = creating \ {id}
          /\ ghost' = [ghost EXCEPT !.returned = @ \cup {id}]
    /\ UNCHANGED <<pvVars, resolving, engVars, callVars, batch, jobs, requests, worker, channels,
                   subscribers>>

\* CreateOperationJob: the send on the queue, which waits while the queue
\* holds capacity references, and the return of the job to the caller
JEnqueueOn(capacity) ==
    /\ \E id \in creating :
          /\ Len(queue) < capacity
          /\ queue' = Append(queue, id)
          /\ creating' = creating \ {id}
          /\ ghost' = [ghost EXCEPT !.returned = @ \cup {id}]
    /\ UNCHANGED <<pvVars, resolving, engVars, callVars, batch, jobs, requests, worker, channels,
                   subscribers>>

JEnqueue == JEnqueueOn(QueueCap)

\* workerLoop takes the next job id off the queue
WDequeue ==
    /\ worker.pc = "idle"
    /\ queue # <<>>
    /\ worker' = [worker EXCEPT !.pc = "process", !.job = Dequeue(queue).job]
    /\ queue' = Dequeue(queue).rest
    /\ UNCHANGED <<pvVars, resolving, engVars, callVars, batch, jobs, requests, creating, channels,
                   subscribers, ghost>>

\* process: the job becomes running
WStart ==
    /\ worker.pc = "process"
    /\ jobs' = [jobs EXCEPT ![worker.job].status = "running",
                            ![worker.job].progress = 5,
                            ![worker.job].startedAt = clock]
    /\ worker' = [worker EXCEPT !.pc = "notify"]
    /\ UNCHANGED <<pvVars, resolving, engVars, callVars, batch, requests, queue, creating, channels,
                   subscribers, ghost>>

\* process: the running update goes to the subscribers
WNotifyRunning ==
    /\ worker.pc = "notify"
    /\ LET sent == notifySubscribers(channels, SubscribersOf(worker.job),
                       [status |-> "running", progress |-> 5, processed |-> 0,
                        total |-> jobs[worker.job].total, success |-> 0, failed |-> 0])
       IN  /\ sent.ok
           /\ channels' = sent.channels
    /\ worker' = [worker EXCEPT !.pc = "execute"]
    /\ UNCHANGED <<pvVars, resolving, engVars, callVars, batch, jobs, requests, queue, creating,
                   subscribers, ghost>>

\* process: the engine call for the stored request and the items built
\* from its result
WExecute ==
    /\ worker.pc = "execute"
    /\ \E request \in {requests[worker.job]}, operation \in {jobs[worker.job].operation} :
        \E r \in {RunRequest(St, operation, request)} :
           /\ SetSt(r.st)
           /\ worker' = [worker EXCEPT !.pc = "finalize",
                                       !.items = ProcessItems(operation, r)]
           /\ ghost' = [ghost EXCEPT !.missing =
                          [i \in DOMAIN @ \cup {worker.job} |->
                              IF i = worker.job
                              THEN Cardinality({k \in 1..Len(request.sources) :
                                      ~Exists(fs, normalizeAPIPath(request.sources[k]))})
                              ELSE @[i]]]
    /\ UNCHANGED <<pvVars, resolving, callVars, batch, jobs, requests, queue, creating, channels,
                   subscribers>>

\* finalize: the job gets its items, counters and final status, the request
\* is dropped, the final update goes to the subscribers
WFinalize ==
    /\ worker.pc = "finalize"
    /\ LET done == Finalized(jobs[worker.job], worker.items, clock)
           sent == notifySubscribers(channels, SubscribersOf(worker.job), JobUpdate(done))
       IN  /\ sent.ok
           /\ jobs' = [jobs EXCEPT ![worker.job] = done]
           /\ channels' = sent.channels
    /\ requests' = [i \in DOMAIN requests \ {worker.job} |-> requests[i]]
    /\ worker' = [worker EXCEPT !.pc = "close", !.items = <<>>]
    /\ UNCHANGED <<pvVars, resolving, engVars, callVars, batch, queue, creating, subscribers, ghost>>

\* finalize: the job's subscriber channels are closed and forgotten
WClose ==
    /\ worker.pc = "close"
    /\ channels' = [c \in DOMAIN channels |->
                       IF \E k \in 1..Len(SubscribersOf(worker.job)) :
                             SubscribersOf(worker.job)[k] = c
                       THEN [channels[c] EXCEPT !.closed = TRUE]
                       ELSE channels[c]]
    /\ subscribers' = [j \in DOMAIN subscribers \ {worker.job} |-> subscribers[j]]
    /\ worker' = IdleWorker
    /\ UNCHANGED <<pvVars, resolving, engVars, callVars, batch, jobs, requests, queue, creating, ghost>>

\* Subscribe, taken at its append to the job's subscribers: its lookup
\* only reads that the job is in the table, which no job ever leaves
Subscribe ==
    /\ ghost.subs < MaxSubs
    /\ \E j \in 1..Len(jobs) :
          LET c == Len(channels) + 1
          IN  /\ channels' = Append(channels, [job |-> j, buf |-> <<>>, closed |-> FALSE,
                                                handler |-> "reading"])
              /\ subscribers' = [i \in DOMAIN subscribers \cup {j} |->
                                    IF i = j THEN Append(SubscribersOf(j), c)
                                    ELSE subscribers[i]]
    /\ ghost' = [ghost EXCEPT !.subs = @ + 1]
    /\ UNCHANGED <<pvVars, resolving, engVars, callVars, batch, jobs, requests, queue, worker,
                   creating>>

\* the stream handler reads one update from its channel
SubReceive ==
    /\ \E c \in DOMAIN channels :
          /\ channels[c].handler = "reading"
          /\ channels[c].buf # <<>>
          /\ channels' = [channels EXCEPT ![c].buf = Tail(@)]
    /\ UNCHANGED <<pvVars, resolving, engVars, callVars, batch, jobs, requests, queue, worker,
                   creating, subscribers, ghost>>

\* the stream handler ends, its client gone or its channel closed, and
\* calls Unsubscribe; what its channel still holds is read by no one
SubUnsubscribe ==
    /\ \E c \in DOMAIN channels :
          /\ channels[c].handler = "reading"
          /\ subscribers' =
                [j \in DOMAIN subscribers |->
                    IF j = channels[c].job
                    THEN SelectSeq(subscribers[j], LAMBDA x : x # c)
                    ELSE subscribers[j]]
          /\ channels' = [channels EXCEPT ![c].handler = "done", ![c].buf = <<>>]
    /\ UNCHANGED <<pvVars, resolving, engVars, callVars, batch, jobs, requests, queue, worker,
                   creating, ghost>>

\* the steps of workerLoop and process around the engine call
WorkerControl ==
    \/ WDequeue
    \/ WStart
    \/ WNotifyRunning
    \/ WFinalize
    \/ WClose

WorkerStep ==
    \/ WorkerControl
    \/ WExecute

JobNext ==
    \/ JCreate
    \/ JEnqueue
    \/ WorkerStep
    \/ Subscribe
    \/ SubReceive
    \/ SubUnsubscribe

JobInit ==
    /\ pvPc = "idle"
    /\ pvIn = <<>>
    /\ pvOut = NoResolve
    /\ pvTouched = {}
    /\ fs = SeedFs
    /\ trashArea = <<>>
    /\ records = <<>>
    /\ nextUuid = 1
    /\ clock = 1
    /\ last = NoCall
    /\ opCount = 0
    /\ tally = NoTally
    /\ batch = NoBatchCall
    /\ jobs = <<>>
    /\ requests = <<>>
    /\ queue = <<>>
    /\ worker = IdleWorker
    /\ creating = {}
    /\ channels = <<>>
    /\ subscribers = <<>>
    /\ ghost = NoGhost
    /\ resolving = <<>>

SpecJob == JobInit /\ [][JobNext]_vars

\* the orchestrator with clients that submit one kind of job: what a job
\* does to the tree has no part in how the worker gets on
CopyJobNext ==
    \/ JCreateCopy
    \/ JEnqueue
    \/ WorkerStep
    \/ Subscribe
    \/ SubReceive
    \/ SubUnsubscribe

\* the engine call of process returns: WExecute is enabled exactly when
\* worker.pc = "execute" and every WExecute step leaves that position, so
\* this is weak fairness of WExecute stated through its enabling condition
ExecuteReturns == []<>(worker.pc # "execute")

\* the worker goroutine is scheduled again and again; nothing is assumed
\* of the callers and of the subscribers; at most one worker step is
\* enabled at a time, so the two conditions together are weak fairness
\* of WorkerStep
SpecJobFair ==
    JobInit /\ [][CopyJobNext]_vars /\ WF_vars(WorkerControl) /\ ExecuteReturns

\* what a status allows of progress and finishedAt
StatusShape(job) ==
    /\ job.status \in {"queued", "running"} \cup Terminal
    /\ job.status = "queued" => job.progress = 0 /\ job.finishedAt = 0
    /\ job.status = "running" => job.progress = 5 /\ job.finishedAt = 0
    /\ job.status \in Terminal => job.progress = 100 /\ job.finishedAt # 0

\* one step of the job table
JobStep ==
    /\ Len(jobs') >= Len(jobs)
    /\ \A j \in (Len(jobs) + 1)..Len(jobs') :
          jobs'[j].status = "queued" /\ jobs'[j].progress = 0
    /\ \A j \in 1..Len(jobs) :
          /\ \/ jobs'[j] = jobs[j]
             \/ jobs[j].status = "queued" /\ jobs'[j].status = "running"
             \/ jobs[j].status = "running" /\ jobs'[j].status \in Terminal
          /\ jobs'[j].progress >= jobs[j].progress
          /\ jobs[j].status \in Terminal => jobs'[j] = jobs[j]

(* C2: a job's status runs through queued, running and one of completed,   *)
(* partial, failed, in this order and with no other step; its progress is  *)
(* 0 while queued, 5 while running and 100 at the end and never falls; a   *)
(* job that has reached its final status never changes again.              *)
JobStateMachine ==
    /\ [](\A j \in 1..Len(jobs) : StatusShape(jobs[j]))
    /\ [][JobStep]_vars

\* one job is done and the next one is running
JobStateMachineWitness ==
    \E j, k \in 1..Len(jobs) :
       /\ jobs[j].status \in Terminal
       /\ jobs[j].items # <<>>
       /\ jobs[k].status = "running"

\* the copy jobs that have reached their final status
DoneCopies == {j \in 1..Len(jobs) : jobs[j].operation = "copy" /\ jobs[j].status \in Terminal}

FifoOneAtATime ==
    /\ Cardinality({j \in 1..Len(jobs) : jobs[j].status = "running"}) <= 1
    /\ \A b \in DOMAIN ghost.before :
          \A a \in ghost.before[b] :
             jobs[b].status # "queued" => jobs[a].status \in Terminal

\* the second job runs, the first, returned before the second was created,
\* is done
FifoOneAtATimeWitness ==
    \E b \in DOMAIN ghost.before :
       /\ ghost.before[b] # {}
       /\ jobs[b].status = "running"
       /\ \A a \in ghost.before[b] : jobs[a].status \in Terminal

\* the worker's two sends: every subscribed channel with a free slot gets
\* the update, a full one keeps its content, no other channel changes
NotifyStep ==
    (worker.pc \in {"notify", "finalize"} /\ worker'.pc # worker.pc) =>
        \A c \in DOMAIN channels :
           channels'[c].buf =
              IF /\ \E k \in 1..Len(SubscribersOf(worker.job)) :
                       SubscribersOf(worker.job)[k] = c
                 /\ Len(channels[c].buf) < SubBufCap
              THEN Append(channels[c].buf, JobUpdate(jobs'[worker.job]))
              ELSE channels[c].buf

-----------------------------------------------------------------------------
(* The orchestrator taking requests of every operation, with what each     *)
(* caller sent kept.                                                       *)

\* the seeded tree with an archive of two entries at /z.zip
SubmitSeed ==
    [q \in DOMAIN SeedFs \cup {ArchivePath} |->
        IF q \in DOMAIN SeedFs THEN SeedFs[q] ELSE "zip:a;m;"]

\* the requests: for each operation one that is taken, among them a copy
\* the engine turns down as a whole, a move and a decompress with their
\* policy in capitals, a move of a missing file named skipped, and the
\* ones CreateOperationJob turns down
SubmitRequests ==
    LET req(op, sources, paths, destination, policy, name) ==
            [operation |-> op, sources |-> sources, paths |-> paths,
             destination |-> destination, policy |-> policy, name |-> name]
        a == <<<<"a">>>>
        d == <<<<"d">>>>
        b == <<<<"b">>>>
    IN  {req(<<"sp", "COPY">>, <<a, <<<<"m">>>>>>, <<>>, d, "", ""),
         req(<<"copy">>, <<a, d>>, <<>>, <<CtrlElem>>, "skip", ""),
         req(<<"copy">>, <<>>, <<a>>, d, "", ""),
         req(<<"move">>, <<a>>, <<>>, BlankDestination, "", ""),
         req(<<"move">>, <<a>>, <<>>, d, "merge", ""),
         req(<<"Delete", "sp">>, <<>>, <<a>>, <<>>, "", ""),
         req(<<"delete">>, <<a>>, <<>>, <<>>, "", ""),
         req(<<"compress">>, <<a, d>>, <<>>, b, "merge", "z"),
         req(<<"compress">>, <<a>>, <<>>, BlankDestination, "", "z"),
         req(<<"decompress">>, <<ArchivePath>>, <<>>, b, "overwrite", ""),
         req(<<"decompress">>, <<ArchivePath>>, <<>>, d, "merge", ""),
         req(<<"decompress">>, <<ArchivePath>>, <<>>, d, "OVERWRITE", ""),
         req(<<"move">>, <<a>>, <<>>, d, "SKIP", ""),
         req(<<"move">>, <<<<<<"skipped">>>>>>, <<>>, d, "", ""),
         req(<<"restore">>, <<>>, <<a>>, <<>>, "", ""),
         req(<<"co", "sp", "py">>, <<a>>, <<>>, d, "", "")}

SCreate == CreateOperationJob(SubmitRequests, Actors, TRUE)

SubmitNext ==
    \/ SCreate
    \/ JEnqueue
    \/ WorkerStep

SubmitInit ==
    /\ pvPc = "idle"
    /\ pvIn = <<>>
    /\ pvOut = NoResolve
    /\ pvTouched = {}
    /\ fs = SubmitSeed
    /\ trashArea = <<>>
    /\ records = <<>>
    /\ nextUuid = 1
    /\ clock = 1
    /\ last = NoCall
    /\ opCount = 0
    /\ tally = NoTally
    /\ batch = NoBatchCall
    /\ jobs = <<>>
    /\ requests = <<>>
    /\ queue = <<>>
    /\ worker = IdleWorker
    /\ creating = {}
    /\ channels = <<>>
    /\ subscribers = <<>>
    /\ ghost = NoGhost
    /\ resolving = <<>>

SpecSubmit == SubmitInit /\ [][SubmitNext]_vars

JobOperations == {"copy", "move", "delete", "compress", "decompress"}

\* the number of inputs of a request: its paths for a delete, its sources
\* for the other operations
InputCount(request) ==
    IF OperationOf(request) = "delete" THEN Len(request.paths) ELSE Len(request.sources)

\* a request that is to be turned down
InvalidRequest(request) ==
    \/ OperationOf(request) \notin JobOperations
    \/ InputCount(request) = 0
    \/ /\ OperationOf(request) \in {"copy", "move", "compress", "decompress"}
       /\ request.destination = BlankDestination
    \/ /\ OperationOf(request) \in {"copy", "move", "decompress"}
       /\ request.policy \notin {"", "rename", "skip", "SKIP", "overwrite", "OVERWRITE"}

\* the places a job's reference is at: waiting for the queue in its
\* caller's hands, in the queue, taken by the worker
ReferencesOf(j) ==
    Cardinality({k \in 1..Len(queue) : queue[k] = j})
    + (IF j \in creating THEN 1 ELSE 0)
    + (IF jobs[j].status # "queued" \/ worker.job = j THEN 1 ELSE 0)

\* a call of CreateOperationJob and what it does to the job table, the
\* stored requests and the queue
SubmitStep ==
    (last'.op = "submit" /\ ghost'.calls = ghost.calls + 1)
        => LET request == last'.record.request
               id == Len(jobs) + 1
           IN  IF InvalidRequest(request)
               THEN /\ last'.err # NoErr
                    /\ UNCHANGED <<jobs, requests, queue, creating, engVars>>
               ELSE /\ last'.err = NoErr
                    /\ Len(jobs') = id
                    /\ SubSeq(jobs', 1, Len(jobs)) = jobs
                    /\ jobs'[id].operation = OperationOf(request)
                    /\ jobs'[id].status = "queued"
                    /\ jobs'[id].progress = 0
                    /\ jobs'[id].processed = 0
                    /\ jobs'[id].success = 0
                    /\ jobs'[id].failed = 0
                    /\ jobs'[id].items = <<>>
                    /\ jobs'[id].total = InputCount(request)
                    /\ DOMAIN requests' = DOMAIN requests \cup {id}
                    /\ requests'[id] = request
                    /\ \A j \in DOMAIN requests : requests'[j] = requests[j]
                    /\ UNCHANGED engVars

(* C24: CreateOperationJob turns down a request whose operation, trimmed   *)
(* and in lower case, is none of copy, move, delete, compress, decompress, *)
(* that has no source (no path for delete), a blank destination for copy,  *)
(* move, compress, decompress, or an unknown policy for copy, move,        *)
(* decompress, and leaves job table, requests and queue as they were; any  *)
(* other request adds one job, queued with progress 0, counters 0 and the  *)
(* number of inputs as its total, and one reference to it goes to the      *)
(* queue.                                                                  *)
SubmitAtomic ==
    /\ [](\A j \in 1..Len(jobs) : ReferencesOf(j) = 1)
    /\ [](\A j \in ghost.returned : j \notin creating)
    /\ [][SubmitStep]_vars

\* a request was taken and its job waits in the queue, and the call after
\* it was turned down for its policy
SubmitAtomicWitness ==
    /\ last.op = "submit"
    /\ last.err = "BAD_REQUEST"
    /\ ghost.calls = 2
    /\ Len(jobs) = 1
    /\ queue = <<1>>
    /\ jobs[1].operation = "copy"
    /\ requests[1].operation = <<"sp", "COPY">>

-----------------------------------------------------------------------------
(* The orchestrator with a queue that fills.                               *)

\* the queue's capacity in these runs; the program's is QueueCap
QueueBound == 1

JEnqueueFull == JEnqueueOn(QueueBound)

QueueNext ==
    \/ JCreate
    \/ JEnqueueFull
    \/ WorkerStep

\* the worker goroutine is scheduled again and again, the engine call
\* returns, and a send on the queue is made once the queue has room;
\* nothing is assumed of the callers
SpecQueueFair ==
    /\ JobInit
    /\ [][QueueNext]_vars
    /\ WF_vars(WorkerControl)
    /\ ExecuteReturns
    /\ WF_vars(JEnqueueFull)

\* a call of CreateOperationJob returns
ReturnStep ==
    ghost'.returned # ghost.returned
        => /\ Len(queue) < QueueBound
           /\ Len(queue') = Len(queue) + 1

(* C25: the queue never holds more references than its capacity; a call   *)
(* of CreateOperationJob that finds the queue full returns only after the *)
(* worker has taken a reference off it, and with the worker running it    *)
(* does return; while it waits its job is in the job table, queued.       *)
Backpressure ==
    /\ [](Len(queue) <= QueueBound)
    /\ [](\A j \in creating : j \in 1..Len(jobs) /\ jobs[j].status = "queued")
    /\ [][ReturnStep]_vars
    /\ \A j \in 1..MaxJobs : (j \in creating) ~> (j \in ghost.returned)

\* the queue is full, and a call waits at its send with its job in the
\* table
BackpressureWitness ==
    /\ Len(queue) = QueueBound
    /\ worker.pc = "idle"
    /\ \E j \in creating : jobs[j].status = "queued" /\ j \notin ghost.returned

-----------------------------------------------------------------------------
(* The channels of the subscribers and the end of their jobs.              *)

\* finalize has run to its end for job j
FinalizeDone(j) ==
    /\ jobs[j].status \in Terminal
    /\ ~(worker.job = j /\ worker.pc = "close")

\* one step of a channel: it is closed once, by the worker, and nothing is
\* sent on it afterwards
ChannelStep ==
    \A c \in DOMAIN channels :
       /\ channels[c].closed =>
             /\ channels'[c].closed
             /\ Len(channels'[c].buf) <= Len(channels[c].buf)
       /\ (~channels[c].closed /\ channels'[c].closed) =>
             /\ worker.pc = "close"
             /\ channels[c].job = worker.job

\* channel c is there and its job has reached a final status
OfEndedJob(c) ==
    IF c \in DOMAIN channels THEN jobs[channels[c].job].status \in Terminal ELSE FALSE

\* channel c is there, its job has reached a final status, and it is in the
\* job's subscribers while finalize is at work on the job
InTableAtClose(c) ==
    IF c \in DOMAIN channels
    THEN /\ jobs[channels[c].job].status \in Terminal
         /\ worker.job = channels[c].job
         /\ \E k \in 1..Len(SubscribersOf(channels[c].job)) :
               SubscribersOf(channels[c].job)[k] = c
    ELSE FALSE

IsClosed(c) == IF c \in DOMAIN channels THEN channels[c].closed ELSE FALSE

HasLeft(c) == IF c \in DOMAIN channels THEN channels[c].handler = "done" ELSE FALSE

(* C26: every channel a Subscribe has returned for a job that reaches a    *)
(* final status is closed in the end, whenever the Subscribe came; a       *)
(* channel is closed once and nothing is sent on it afterwards; and once   *)
(* finalize is over the subscriber table has no entry for the job.         *)
StreamTermination ==
    /\ \A c \in 1..MaxSubs : OfEndedJob(c) ~> IsClosed(c)
    /\ [][ChannelStep]_vars
    /\ [](\A j \in 1..Len(jobs) : FinalizeDone(j) => j \notin DOMAIN subscribers)

\* C26 for the channels that are in the subscriber table when finalize
\* closes the job's channels: they are closed unless their handler leaves
\* before
StreamTerminationInTime ==
    /\ \A c \in 1..MaxSubs : InTableAtClose(c) ~> (IsClosed(c) \/ HasLeft(c))
    /\ [][ChannelStep]_vars

\* a Subscribe came after finalize was over: its channel is open, its
\* handler reads, and the job has an entry in the subscriber table
LateSubscriber ==
    \E c \in DOMAIN channels :
       /\ FinalizeDone(channels[c].job)
       /\ worker.pc = "idle"
       /\ queue = <<>>
       /\ ~channels[c].closed
       /\ channels[c].handler = "reading"
       /\ channels[c].job \in DOMAIN subscribers
       /\ subscribers[channels[c].job] = <<c>>

-----------------------------------------------------------------------------
(* notifySubscribers, Subscribe and Unsubscribe step by step.  The entry   *)
(* subscribers[j] is here the array behind the job's slice: the slice's    *)
(* channels and then 0 for each place the slice has still room for.        *)
(* notifySubscribers copies the slice under its lock and reads the         *)
(* channels from the array afterwards, one before each send: view is what  *)
(* it would read at each place, at the place it reads next, shared whether *)
(* the slice still lies in the array the copy points into.  A channel      *)
(* keeps what its handler has read in got.                                 *)

\* subscribers over all jobs of one run
StreamSubs == 2

\* the capacity of a channel in these runs, no less than the number of
\* updates of a job; the program's is 64
StreamBufCap == 2

ArrayOf(j) == IF j \in DOMAIN subscribers THEN subscribers[j] ELSE <<>>

\* the slice in array arr
SliceOf(arr) == SelectSeq(arr, LAMBDA c : c # 0)

Zeros(n) == [k \in 1..n |-> 0]

\* append on a slice that fills its array: the new array's size
GrowCap(cap) == IF cap = 0 THEN 1 ELSE 2 * cap

Sending == {"sending", "fsending"}

\* notifySubscribers is between its sends for job j, reading from the
\* array the job's slice lies in
Watching(j) == worker.pc \in Sending /\ worker.job = j /\ worker.shared

RunningUpdate(j) ==
    [status |-> "running", progress |-> 5, processed |-> 0,
     total |-> jobs[j].total, success |-> 0, failed |-> 0]

\* Subscribe, at its append
TSubscribe ==
    /\ Len(channels) < StreamSubs
    /\ \E j \in 1..Len(jobs) :
          LET arr == ArrayOf(j)
              n == Len(SliceOf(arr))
              c == Len(channels) + 1
              inPlace == n < Len(arr)
              grown == SliceOf(arr) \o <<c>> \o Zeros(GrowCap(Len(arr)) - n - 1)
          IN  /\ channels' = Append(channels,
                                    [job |-> j, buf |-> <<>>, closed |-> FALSE,
                                     handler |-> "reading", got |-> <<>>,
                                     early |-> jobs[j].status = "queued"])
              /\ subscribers' = [i \in DOMAIN subscribers \cup {j} |->
                                    IF i # j THEN subscribers[i]
                                    ELSE IF inPlace THEN [arr EXCEPT ![n + 1] = c]
                                    ELSE grown]
              /\ worker' = IF ~Watching(j) THEN worker
                           ELSE IF ~inPlace THEN [worker EXCEPT !.shared = FALSE]
                           ELSE IF n + 1 <= Len(worker.view)
                           THEN [worker EXCEPT !.view[n + 1] = c]
                           ELSE worker
    /\ UNCHANGED <<pvVars, resolving, engVars, callVars, batch, jobs, requests, queue,
                   creating, ghost>>

\* Unsubscribe(j, c): the channels behind c move one place down in the
\* array, the last place keeps what it held
Unsubscribed(j, c) ==
    LET arr == ArrayOf(j)
        slice == SliceOf(arr)
        n == Len(slice)
        held == {k \in 1..n : slice[k] = c}
        i == CHOOSE k \in held : \A m \in held : k <= m
    IN  IF held = {} THEN [subscribers |-> subscribers, worker |-> worker]
        ELSE [subscribers |->
                 [subscribers EXCEPT ![j] =
                     [k \in 1..Len(arr) |->
                         IF k < i THEN arr[k]
                         ELSE IF k < n THEN arr[k + 1]
                         ELSE 0]],
              worker |->
                 IF ~Watching(j) THEN worker
                 ELSE [worker EXCEPT !.view =
                          [k \in 1..Len(worker.view) |->
                              IF k >= i /\ k < n THEN arr[k + 1] ELSE worker.view[k]]]]

\* the stream handler reads one update from its channel
TReceive ==
    /\ \E c \in DOMAIN channels :
          /\ channels[c].handler = "reading"
          /\ channels[c].buf # <<>>
          /\ channels' = [channels EXCEPT ![c].got = Append(@, Head(channels[c].buf)),
                                          ![c].buf = Tail(@)]
    /\ UNCHANGED <<pvVars, resolving, engVars, callVars, batch, jobs, requests, queue, worker,
                   creating, subscribers, ghost>>

\* the stream handler returns, having found its channel closed or its
\* client gone, and calls Unsubscribe
TLeave ==
    /\ \E c \in DOMAIN channels :
          /\ channels[c].handler = "reading"
          /\ channels' = [channels EXCEPT
                            ![c].handler = IF channels[c].closed /\ channels[c].buf = <<>>
                                           THEN "closed" ELSE "gone"]
          /\ subscribers' = Unsubscribed(channels[c].job, c).subscribers
          /\ worker' = Unsubscribed(channels[c].job, c).worker
    /\ UNCHANGED <<pvVars, resolving, engVars, callVars, batch, jobs, requests, queue,
                   creating, ghost>>

\* notifySubscribers: the copy of the job's slice, made under the lock
TSnapshot ==
    /\ worker.pc \in {"notify", "fnotify"}
    /\ worker' = [worker EXCEPT !.pc = IF worker.pc = "notify" THEN "sending" ELSE "fsending",
                                !.view = SliceOf(ArrayOf(worker.job)),
                                !.at = 1,
                                !.shared = TRUE]
    /\ UNCHANGED <<pvVars, resolving, engVars, callVars, batch, jobs, requests, queue,
                   creating, channels, subscribers, ghost>>

\* notifySubscribers: one pass of its loop, a send that is dropped when the
\* channel is full
TSend ==
    /\ worker.pc \in Sending
    /\ worker.at <= Len(worker.view)
    /\ LET c == worker.view[worker.at]
           update == IF worker.pc = "sending" THEN RunningUpdate(worker.job)
                     ELSE JobUpdate(jobs[worker.job])
       IN  channels' = IF Len(channels[c].buf) < StreamBufCap
                       THEN [channels EXCEPT ![c].buf = Append(@, update)]
                       ELSE channels
    /\ worker' = [worker EXCEPT !.at = @ + 1]
    /\ UNCHANGED <<pvVars, resolving, engVars, callVars, batch, jobs, requests, queue,
                   creating, subscribers, ghost>>

\* notifySubscribers returns, to process or to finalize
TSent ==
    /\ worker.pc \in Sending
    /\ worker.at > Len(worker.view)
    /\ worker' = [worker EXCEPT !.pc = IF worker.pc = "sending" THEN "execute" ELSE "close",
                                !.view = <<>>,
                                !.at = 0,
                                !.shared = FALSE]
    /\ UNCHANGED <<pvVars, resolving, engVars, callVars, batch, jobs, requests, queue,
                   creating, channels, subscribers, ghost>>

\* finalize up to its call of notifySubscribers
TFinalize ==
    /\ worker.pc = "finalize"
    /\ jobs' = [jobs EXCEPT ![worker.job] = Finalized(jobs[worker.job], worker.items, clock)]
    /\ requests' = [i \in DOMAIN requests \ {worker.job} |-> requests[i]]
    /\ worker' = [worker EXCEPT !.pc = "fnotify", !.items = <<>>]
    /\ UNCHANGED <<pvVars, resolving, engVars, callVars, batch, queue, creating, channels,
                   subscribers, ghost>>

StreamNext ==
    \/ JCreateCopy
    \/ JEnqueue
    \/ WDequeue
    \/ WStart
    \/ TSnapshot
    \/ TSend
    \/ TSent
    \/ WExecute
    \/ TFinalize
    \/ WClose
    \/ TSubscribe
    \/ TReceive
    \/ TLeave

SpecStream == JobInit /\ [][StreamNext]_vars

\* what channel c has been sent and has kept: what its handler has read
\* and what waits in it
SeenOn(c) == channels[c].got \o channels[c].buf

\* the two updates of a job, in order
UpdatesOf(j) == <<RunningUpdate(j), JobUpdate(jobs[j])>>

\* channel c has been sent the job's updates in order, each once, the
\* second when the job had its final status, and was closed after both
InOrder(c) ==
    LET j == channels[c].job
        seen == SeenOn(c)
    IN  /\ Len(seen) <= 2
        /\ seen = SubSeq(UpdatesOf(j), 1, Len(seen))
        /\ Len(seen) = 2 => jobs[j].status \in Terminal
        /\ channels[c].closed => Len(seen) = 2
        /\ channels[c].handler = "closed" => channels[c].got = UpdatesOf(j)

\* C27: a subscriber that has subscribed while its job was queued and does
\* not leave is sent one running update, with progress 5 and counters 0,
\* then one final update, with progress 100 and the job's final status and
\* counters, and nothing else, and finds its channel closed after them
OrderedUpdates ==
    \A c \in DOMAIN channels :
       (channels[c].early /\ channels[c].handler # "gone") => InOrder(c)

\* C27 for the jobs none of whose subscribers has left before the job's
\* channels were closed
OrderedUpdatesNoneLeft ==
    \A c \in DOMAIN channels :
       (/\ channels[c].early
        /\ \A d \in DOMAIN channels :
              channels[d].job = channels[c].job => channels[d].handler # "gone")
           => InOrder(c)

\* a subscriber of a queued job, still reading, has been sent the running
\* update twice
RunningTwice ==
    \E c \in DOMAIN channels :
       /\ channels[c].early
       /\ channels[c].handler = "reading"
       /\ SeenOn(c) = <<RunningUpdate(channels[c].job), RunningUpdate(channels[c].job)>>

\* no update is twice among what channel c has been sent
EachOnce(c) ==
    \A a, b \in 1..Len(SeenOn(c)) : a # b => SeenOn(c)[a] # SeenOn(c)[b]

\* C28: when a subscriber leaves, at any moment, also while the worker
\* notifies, every other subscriber of the job is sent each update once:
\* none twice, and the ones that subscribed while the job was queued have
\* both updates when their channel is closed
LeavingHarmless ==
    \A c \in DOMAIN channels :
       channels[c].handler # "gone"
           => /\ EachOnce(c)
              /\ (channels[c].early /\ channels[c].closed)
                     => (\A k \in 1..2 : \E a \in 1..Len(SeenOn(c)) :
                            SeenOn(c)[a] = UpdatesOf(channels[c].job)[k])

\* C28 for what a leaving subscriber does to the job: the job's row is
\* changed by no step of a subscriber
LeavingStep ==
    (\E c \in DOMAIN channels : channels[c].handler = "reading"
                                /\ channels'[c].handler # "reading")
        => UNCHANGED <<jobs, requests, queue, engVars>>

LeavingKeepsJob == [][LeavingStep]_vars

\* a subscriber has left while the worker was between its sends, and the
\* subscriber behind it has the same update twice
LeftBetweenSends ==
    \E c, d \in DOMAIN channels :
       /\ c # d
       /\ channels[c].job = channels[d].job
       /\ channels[c].handler = "gone"
       /\ channels[c].got = <<>>
       /\ channels[d].handler = "reading"
       /\ ~EachOnce(d)
       /\ jobs[channels[d].job].status = "running"

\* the counters of a job are those of its items, and a job that is not at
\* its end has no items
CountersOfItems(j) ==
    /\ jobs[j].status \notin Terminal => jobs[j].items = <<>>
    /\ jobs[j].status \in Terminal =>
          /\ jobs[j].processed = Len(jobs[j].items)
          /\ jobs[j].success + jobs[j].failed = jobs[j].processed

\* C29: a job at its end holds one item for each source it was submitted
\* with (each path for a delete), so that its processed count is the
\* number of its items and its total, and successes and failures add up to
\* it, whatever the operation and also when the engine call failed as a
\* whole; before its end a job has no items
OneItemPerInput ==
    \A j \in 1..Len(jobs) :
       /\ CountersOfItems(j)
       /\ jobs[j].status \in Terminal => Len(jobs[j].items) = jobs[j].total

\* the engine call of job j failed as a whole: the job's only item is the
\* call's error
FailedAsAWhole(j) ==
    /\ Len(jobs[j].items) = 1
    /\ jobs[j].items[1].status = "failed"
    /\ jobs[j].items[1].from = <<>>

\* C29 for the copy, move and delete jobs whose engine call did not fail
\* as a whole, and for the counters of every job
OneItemPerInputOfBatch ==
    \A j \in 1..Len(jobs) :
       /\ CountersOfItems(j)
       /\ (/\ jobs[j].status \in Terminal
           /\ jobs[j].operation \in {"copy", "move", "delete"}
           /\ ~FailedAsAWhole(j))
             => Len(jobs[j].items) = jobs[j].total

\* a copy of two sources whose destination the engine turned down has
\* ended failed with one item
OneItemForTwoSources ==
    \E j \in 1..Len(jobs) :
       /\ jobs[j].operation = "copy"
       /\ jobs[j].status = "failed"
       /\ jobs[j].total = 2
       /\ jobs[j].processed = 1
       /\ FailedAsAWhole(j)
       /\ jobs[j].items[1].reason = "INVALID_PATH"

\* a decompress job of one archive has ended with an item for each of the
\* archive's two entries, a compress job of two sources with one item
ItemsPerEntry ==
    \E j, k \in 1..Len(jobs) :
       /\ jobs[j].operation = "decompress"
       /\ jobs[j].status = "completed"
       /\ jobs[j].total = 1
       /\ jobs[j].processed = 2
       /\ jobs[k].operation = "compress"
       /\ jobs[k].status = "completed"
       /\ jobs[k].total = 2
       /\ jobs[k].processed = 1

\* the callers whose jobs have been taken
Submitters == {ghost.by[j] : j \in DOMAIN ghost.by}

\* C30: the engine calls made for a job carry the actor that submitted the
\* job: a trash record made by a job names a caller whose job was taken,
\* never the zero actor
ActorPropagated ==
    \A id \in DOMAIN records :
       /\ records[id].deletedBy # ZeroActor
       /\ records[id].deletedBy \in Submitters

\* the delete job alice submitted has ended completed, and the record of
\* the path it moved to the trash names the zero actor
DeletedByNoOne ==
    \E j \in 1..Len(jobs), id \in DOMAIN records :
       /\ jobs[j].operation = "delete"
       /\ jobs[j].status = "completed"
       /\ ghost.by[j] = "alice"
       /\ records[id].originalPath = <<<<"a">>>>
       /\ records[id].deletedBy = ZeroActor

-----------------------------------------------------------------------------
(* The read calls of the orchestrator: GetJobItems and GetJob, made by     *)
(* clients while the worker runs the jobs.  last holds the call: what was  *)
(* asked and what was answered.                                            *)

\* the width of int, scaled down from 64 bits; the products of the model
\* stay below it in TLC's own integers
IntBits == 16

MaxInt == 2 ^ (IntBits - 1) - 1

MinInt == 0 - 2 ^ (IntBits - 1)

\* int arithmetic wraps around
WrapInt(x) == ((x - MinInt) % (2 ^ IntBits)) + MinInt

\* the limit of a page when none is asked for, and the greatest
DefaultLimit == 100

MaxLimit == 500

\* a query value: absent, not a number, or a number as strconv.Atoi reads it
RawEmpty == [kind |-> "empty", value |-> 0]

RawWord == [kind |-> "word", value |-> 0]

RawInt(n) == [kind |-> "number", value |-> n]

\* parseIntOrDefault: the fallback for an empty value and for what Atoi
\* turns down, a number out of int's range included
parseIntOrDefault(raw, fallback) ==
    IF raw.kind # "number" THEN fallback
    ELSE IF raw.value < MinInt \/ raw.value > MaxInt THEN fallback
    ELSE raw.value

\* GetJobItems after the lookup of the job: the page of items and the meta
\* data; fault: the slice expression panics, its start below 0
PageOf(items, page, limit) ==
    LET p == IF page < 1 THEN 1 ELSE page
        l == IF limit <= 0 THEN DefaultLimit
             ELSE IF limit > MaxLimit THEN MaxLimit ELSE limit
        total == Len(items)
        product == WrapInt((p - 1) * l)
        start == IF product > total THEN total ELSE product
        sum == WrapInt(start + l)
        end == IF sum > total THEN total ELSE sum
        meta == [page |-> p, limit |-> l, total |-> total,
                 totalPages |-> IF total > 0 THEN (total + l - 1) \div l ELSE 0]
    IN  IF start < 0 \/ end < start
        THEN [fault |-> TRUE, items |-> <<>>, meta |-> meta]
        ELSE [fault |-> FALSE, items |-> SubSeq(items, start + 1, end), meta |-> meta]

\* the page and limit values of the queries: absent, not a number, around
\* 0 and 1, around the limits, and great ones up to the greatest int and
\* past it
RawPages ==
    {RawEmpty, RawWord} \cup
    {RawInt(n) : n \in {0 - 1, 0, 1, 2, 3, 2 ^ (IntBits - 2) + 1, 2 ^ (IntBits - 3) + 1,
                        MaxInt, MaxInt + 1}}

RawLimits ==
    {RawEmpty, RawWord} \cup
    {RawInt(n) : n \in {0 - 1, 0, 1, 2, 4, MaxLimit, MaxLimit + 1, MaxInt}}

\* a call of GetJob has the job's address and has not returned
Copying == "asked" \in DOMAIN last /\ last.pc = "copy"

\* a call of op has returned and found its job
Answered(op) ==
    /\ "asked" \in DOMAIN last
    /\ last.asked.op = op
    /\ last.pc = "done"
    /\ last.err = NoErr

\* the handler GetJobItems: the query values parsed, the job looked up
\* under the table's read lock, the page cut out of its items
RGetJobItems ==
    /\ ~TableLocked
    /\ ~Copying
    /\ \E j \in 1..MaxJobs, rawPage \in RawPages, rawLimit \in RawLimits :
          LET page == parseIntOrDefault(rawPage, 1)
              limit == parseIntOrDefault(rawLimit, DefaultLimit)
              asked == [op |-> "GetJobItems", id |-> j, page |-> page, limit |-> limit]
          IN  last' = IF j > Len(jobs)
                      THEN [asked |-> asked, pc |-> "done", err |-> "NOT_FOUND",
                            fault |-> FALSE,
                            items |-> <<>>, meta |-> <<>>, of |-> <<>>]
                      ELSE [asked |-> asked, pc |-> "done", err |-> NoErr,
                            fault |-> PageOf(jobs[j].items, page, limit).fault,
                            items |-> PageOf(jobs[j].items, page, limit).items,
                            meta |-> PageOf(jobs[j].items, page, limit).meta,
                            of |-> jobs[j].items]
    /\ UNCHANGED <<pvVars, resolving, engVars, opCount, tally, batch, jobVars>>

\* the fields of JobData that change after the insert, in the order of the
\* struct
JobFields ==
    <<"status", "total", "processed", "success", "failed", "progress", "startedAt",
      "finishedAt">>

\* the fields the copy of a struct has read when it stands at field k,
\* going up or down the addresses
FieldsRead(k, up) ==
    IF up THEN {JobFields[i] : i \in 1..k}
    ELSE {JobFields[i] : i \in (Len(JobFields) - k + 1)..Len(JobFields)}

\* GetJob: getAuthorizedJob takes the job's address under the table's read
\* lock and gives the lock up; cloneJob then copies the struct, no lock
\* held, of which a part is read here
RGetJobBegin ==
    /\ ~TableLocked
    /\ ~Copying
    /\ \E j \in 1..MaxJobs, k \in 0..Len(JobFields), up \in BOOLEAN :
          last' = IF j > Len(jobs)
                  THEN [asked |-> [op |-> "GetJob", id |-> j], pc |-> "done",
                        err |-> "NOT_FOUND", job |-> <<>>]
                  ELSE [asked |-> [op |-> "GetJob", id |-> j], pc |-> "copy",
                        err |-> NoErr,
                        job |-> [f \in FieldsRead(k, up) |-> jobs[j][f]]]
    /\ UNCHANGED <<pvVars, resolving, engVars, opCount, tally, batch, jobVars>>

\* cloneJob: the rest of the struct is read and GetJob returns the copy
RGetJobEnd ==
    /\ Copying
    /\ last' = [last EXCEPT
                   !.pc = "done",
                   !.job = [f \in {JobFields[i] : i \in 1..Len(JobFields)} |->
                               IF f \in DOMAIN last.job THEN last.job[f]
                               ELSE jobs[last.asked.id][f]]]
    /\ UNCHANGED <<pvVars, resolving, engVars, opCount, tally, batch, jobVars>>

ReadNext ==
    \/ JCreateCopy
    \/ JEnqueue
    \/ WorkerStep
    \/ RGetJobItems
    \/ RGetJobBegin
    \/ RGetJobEnd

SpecRead == JobInit /\ [][ReadNext]_vars

\* the pages 1..n of items under a limit, one after the other
RECURSIVE PagesUpTo(_, _, _)
PagesUpTo(items, n, limit) ==
    IF n = 0 THEN <<>>
    ELSE PagesUpTo(items, n - 1, limit) \o PageOf(items, n, limit).items

\* what the answer of GetJobItems is to be for the page and limit asked
PageStated(answer) ==
    LET p == IF answer.asked.page < 1 THEN 1 ELSE answer.asked.page
        l == IF answer.asked.limit <= 0 THEN DefaultLimit
             ELSE IF answer.asked.limit > MaxLimit THEN MaxLimit
             ELSE answer.asked.limit
        total == Len(answer.of)
        upTo == IF p * l < total THEN p * l ELSE total
    IN  /\ ~answer.fault
        /\ answer.items = SubSeq(answer.of, (p - 1) * l + 1, upTo)
        /\ (p - 1) * l >= total => answer.items = <<>>
        /\ PagesUpTo(answer.of, answer.meta.totalPages, answer.asked.limit) = answer.of

\* C31: for every page and limit the handler accepts, values <= 0 and very
\* large ones included, GetJobItems returns without fault the items from
\* index (p-1)*L up to min(p*L, total), p = max(page, 1), L the limit
\* brought into 1..500 with 100 for a limit <= 0; the slice is empty when
\* (p-1)*L >= total, and the pages 1..totalPages one after the other are
\* the item list
Pagination == Answered("GetJobItems") => PageStated(last)

\* C31 for the pages whose start is within int's range
PaginationInRange ==
    (/\ Answered("GetJobItems")
     /\ (last.meta.page - 1) * last.meta.limit <= MaxInt)
        => PageStated(last)

\* a page far out is asked of a job of two items: the product of page - 1
\* and limit wraps around to below 0 and the slice expression panics
PageFault ==
    /\ Answered("GetJobItems")
    /\ Len(last.of) = 2
    /\ last.asked.page = 2 ^ (IntBits - 2) + 1
    /\ last.asked.limit = 2
    /\ last.fault

\* a page far out is answered with the first page: the product wraps
\* around to 0
PageWrapped ==
    /\ Answered("GetJobItems")
    /\ Len(last.of) = 2
    /\ last.asked.page = 2 ^ (IntBits - 2) + 1
    /\ last.asked.limit = 4
    /\ ~last.fault
    /\ last.items = last.of

\* what one state of a job allows of the fields GetJob shows
OneState(d) ==
    /\ (d.status \in Terminal) <=> (d.progress = 100)
    /\ (d.progress = 100) <=> (d.finishedAt # 0)
    /\ d.status = "queued" => d.progress = 0 /\ d.startedAt = 0

\* C33: every JobData returned by GetJob is a snapshot of one single state
\* of the job, also when the read runs while the worker moves the job on:
\* status is terminal iff progress = 100 iff finishedAt is set, a queued
\* status comes with progress 0 and no startedAt, and the counters shown
\* with a terminal status are the final ones
ConsistentRead ==
    Answered("GetJob") =>
        /\ OneState(last.job)
        /\ last.job.status \in Terminal =>
               /\ last.job.processed = jobs[last.asked.id].processed
               /\ last.job.success = jobs[last.asked.id].success
               /\ last.job.failed = jobs[last.asked.id].failed

\* C33 for the reads during which the worker leaves the job alone: the
\* copy is the job as it stands
ConsistentReadAtRest ==
    (/\ Answered("GetJob")
     /\ last.job.status = jobs[last.asked.id].status
     /\ last.job.finishedAt = jobs[last.asked.id].finishedAt
     /\ last.job.startedAt = jobs[last.asked.id].startedAt)
        => \A i \in 1..Len(JobFields) :
              last.job[JobFields[i]] = jobs[last.asked.id][JobFields[i]]

\* GetJob returned a job that is queued and has progress 5: the copy of the
\* struct read the status, process set the job running, the copy read on
TornRead ==
    /\ Answered("GetJob")
    /\ last.job.status = "queued"
    /\ last.job.progress = 5
    /\ last.job.startedAt # 0

\* GetJob returned a running job with the final counters and progress 100
TornReadFinal ==
    /\ Answered("GetJob")
    /\ last.job.status = "running"
    /\ last.job.progress = 100
    /\ last.job.processed = 2

-----------------------------------------------------------------------------
(* The orchestrator with its writes to the JobRepository.  ghost.repo is   *)
(* the list of the writes made: the call, the job, the status written and  *)
(* whether the goroutine making the call held the job table's lock.  A     *)
(* write is a step of its own: the repository takes the time it takes.     *)

RepoWrite(op, j, status, holds) ==
    [op |-> op, job |-> j, status |-> status, holds |-> holds]

\* the repository has been asked to write op for job j with a status out
\* of statuses
Written(op, j, statuses) ==
    \E k \in 1..Len(ghost.repo) :
       /\ ghost.repo[k].op = op
       /\ ghost.repo[k].job = j
       /\ ghost.repo[k].status \in statuses

\* CreateOperationJob: persistJobCreate, after the insert and the unlock
RPersistCreate ==
    /\ \E id \in creating :
          /\ ~Written("Create", id, {"queued"})
          /\ ghost' = [ghost EXCEPT !.repo = Append(@, RepoWrite("Create", id, "queued", FALSE))]
    /\ UNCHANGED <<pvVars, resolving, engVars, callVars, batch, jobs, requests, queue, worker,
                   creating, channels, subscribers>>

\* CreateOperationJob: the send on the queue, after persistJobCreate
REnqueue ==
    /\ \E id \in creating :
          /\ Written("Create", id, {"queued"})
          /\ Len(queue) < QueueCap
          /\ queue' = Append(queue, id)
          /\ creating' = creating \ {id}
          /\ ghost' = [ghost EXCEPT !.returned = @ \cup {id}]
    /\ UNCHANGED <<pvVars, resolving, engVars, callVars, batch, jobs, requests, worker, channels,
                   subscribers>>

\* process: persistJobUpdate of the running job, after the unlock
RPersistRunning ==
    /\ worker.pc = "notify"
    /\ ~Written("Update", worker.job, {"running"})
    /\ ghost' = [ghost EXCEPT !.repo =
                    Append(@, RepoWrite("Update", worker.job, jobs[worker.job].status,
                                        TableLocked))]
    /\ UNCHANGED <<pvVars, resolving, engVars, callVars, batch, jobs, requests, queue, worker,
                   creating, channels, subscribers>>

\* process: the running update goes out after persistJobUpdate
RNotifyRunning ==
    /\ Written("Update", worker.job, {"running"})
    /\ WNotifyRunning

\* finalize: persistJobUpdate of the finished job, after the notification
RPersistFinal ==
    /\ worker.pc = "close"
    /\ ~Written("Update", worker.job, Terminal)
    /\ ghost' = [ghost EXCEPT !.repo =
                    Append(@, RepoWrite("Update", worker.job, jobs[worker.job].status,
                                        TableLocked))]
    /\ UNCHANGED <<pvVars, resolving, engVars, callVars, batch, jobs, requests, queue, worker,
                   creating, channels, subscribers>>

\* finalize: persistJobItems, after persistJobUpdate
RPersistItems ==
    /\ worker.pc = "close"
    /\ Written("Update", worker.job, Terminal)
    /\ ~Written("SaveItems", worker.job, Terminal)
    /\ ghost' = [ghost EXCEPT !.repo =
                    Append(@, RepoWrite("SaveItems", worker.job, jobs[worker.job].status,
                                        TableLocked))]
    /\ UNCHANGED <<pvVars, resolving, engVars, callVars, batch, jobs, requests, queue, worker,
                   creating, channels, subscribers>>

\* finalize: the channels are closed after the two writes, and the lock of
\* the job table is given up on return
RClose ==
    /\ Written("SaveItems", worker.job, Terminal)
    /\ WClose

RepoNext ==
    \/ JCreateCopy
    \/ RPersistCreate
    \/ REnqueue
    \/ WDequeue
    \/ WStart
    \/ RPersistRunning
    \/ RNotifyRunning
    \/ WExecute
    \/ WFinalize
    \/ RPersistFinal
    \/ RPersistItems
    \/ RClose
    \/ Subscribe

SpecRepo == JobInit /\ [][RepoNext]_vars

\* a goroutine stands in a call of the repository
InRepoCall ==
    \/ worker.pc = "notify" /\ ~Written("Update", worker.job, {"running"})
    \/ worker.pc = "close" /\ ~Written("SaveItems", worker.job, Terminal)

\* C32: no JobRepository write (Create, Update, SaveItems) is performed
\* while the job-table mutex is held, in submission, in the running
\* transition and in finalization, so that a slow or hanging repository
\* never blocks the calls that take the mutex
LockDiscipline ==
    /\ \A k \in 1..Len(ghost.repo) : ~ghost.repo[k].holds
    /\ InRepoCall => ~TableLocked

\* C32 for submission and the running transition
LockDisciplineBeforeFinalize ==
    /\ \A k \in 1..Len(ghost.repo) :
          ghost.repo[k].status \in {"queued", "running"} => ~ghost.repo[k].holds
    /\ (worker.pc = "notify" /\ InRepoCall) => ~TableLocked

\* finalize has written the finished job and its items to the repository,
\* holding the lock of the job table through both calls
WrittenUnderLock ==
    /\ worker.pc = "close"
    /\ TableLocked
    /\ \E k \in 1..Len(ghost.repo) :
          /\ ghost.repo[k].op = "SaveItems"
          /\ ghost.repo[k].holds
    /\ \E k \in 1..Len(ghost.repo) :
          /\ ghost.repo[k].op = "Update"
          /\ ghost.repo[k].status \in Terminal
          /\ ghost.repo[k].holds

-----------------------------------------------------------------------------
(* The trash store under concurrent calls.  Each call is a goroutine of    *)
(* its own; a step is one access to the tree, the trash area or the table  *)
(* of records.  resolving holds the calls in flight and the returned       *)
(* ones: [op, pc, path, id, record, listed, at, count, deleted, fault,     *)
(* err].                                                                   *)

\* number of trash calls in one run
MaxTrashCalls == 3

TrashCall(op, pc) ==
    [op |-> op, pc |-> pc, path |-> <<>>, id |-> 0, record |-> NoRecord, listed |-> <<>>,
     at |-> 0, count |-> 0, deleted |-> {}, fault |-> FALSE, err |-> NoErr]

Done(call, err) == [call EXCEPT !.pc = "done", !.err = err]

\* SoftDelete up to its os.Stat: the record is made with fresh identifiers
\* and the time
CSoftDeleteStat ==
    /\ Len(resolving) < MaxTrashCalls
    /\ \E p \in TrashPaths, actor \in Actors :
          LET call == [TrashCall("softDelete", "move") EXCEPT !.path = p]
              rec == [id |-> nextUuid,
                      originalPath |-> p,
                      trashName |-> <<nextUuid + 1, Base(p)>>,
                      deletedAt |-> clock,
                      deletedBy |-> actor,
                      restoredAt |-> NotRestored,
                      restoredBy |-> ZeroActor]
          IN  IF ~Exists(fs, p)
              THEN /\ resolving' = Append(resolving, Done(call, "NOT_EXIST"))
                   /\ UNCHANGED <<nextUuid, clock>>
              ELSE /\ resolving' = Append(resolving, [call EXCEPT !.record = rec])
                   /\ nextUuid' = nextUuid + 2
                   /\ clock' = clock + 1
    /\ UNCHANGED <<pvVars, fs, trashArea, records, callVars, batch, jobVars>>

\* SoftDelete: movePath into the trash area
CSoftDeleteMove ==
    \E c \in DOMAIN resolving :
        LET call == resolving[c]
        IN  /\ call.op = "softDelete" /\ call.pc = "move"
            /\ IF ~Exists(fs, call.path)
               THEN /\ resolving' = [resolving EXCEPT ![c] = Done(call, "move to trash")]
                    /\ UNCHANGED <<fs, trashArea>>
               ELSE /\ fs' = MoveToTrash(St, call.path, call.record.trashName).fs
                    /\ trashArea' = MoveToTrash(St, call.path, call.record.trashName).trash
                    /\ resolving' = [resolving EXCEPT ![c].pc = "create"]
            /\ UNCHANGED <<pvVars, records, nextUuid, clock, callVars, batch, jobVars>>

\* SoftDelete: TrashRepository.Create
CSoftDeleteCreate ==
    \E c \in DOMAIN resolving :
        LET call == resolving[c]
        IN  /\ call.op = "softDelete" /\ call.pc = "create"
            /\ records' = RepoCreate(St, call.record).records
            /\ resolving' = [resolving EXCEPT ![c] = Done(call, NoErr)]
            /\ UNCHANGED <<pvVars, fs, trashArea, nextUuid, clock, callVars, batch, jobVars>>

\* RestoreLatest: TrashRepository.FindLatestByPath
CRestoreFind ==
    /\ Len(resolving) < MaxTrashCalls
    /\ \E p \in TrashPaths :
          LET call == [TrashCall("restoreLatest", "stat") EXCEPT
                          !.path = p, !.record = FindLatestByPath(records, p)]
          IN  resolving' = Append(resolving,
                  IF call.record = NoRecord THEN Done(call, "NOT_FOUND") ELSE call)
    /\ UNCHANGED <<pvVars, engVars, callVars, batch, jobVars>>

\* RestoreLatest: os.Stat of the target
CRestoreStat ==
    \E c \in DOMAIN resolving :
        LET call == resolving[c]
        IN  /\ call.op = "restoreLatest" /\ call.pc = "stat"
            /\ resolving' = [resolving EXCEPT ![c] =
                  IF Exists(fs, call.path) THEN Done(call, "PATH_CONFLICT")
                  ELSE [call EXCEPT !.pc = "move"]]
            /\ UNCHANGED <<pvVars, engVars, callVars, batch, jobVars>>

\* RestoreLatest: MkdirAll of the parent and movePath out of the trash area
CRestoreMove ==
    \E c \in DOMAIN resolving :
        LET call == resolving[c]
            moved == MoveFromTrash(St, call.record.trashName, call.path)
        IN  /\ call.op = "restoreLatest" /\ call.pc = "move"
            /\ fs' = moved.st.fs
            /\ trashArea' = moved.st.trash
            /\ resolving' = [resolving EXCEPT ![c] =
                  IF moved.ok THEN [call EXCEPT !.pc = "mark"] ELSE Done(call, "restore")]
            /\ UNCHANGED <<pvVars, records, nextUuid, clock, callVars, batch, jobVars>>

\* RestoreLatest: TrashRepository.MarkRestored, which finds no row when
\* the record is gone or restored
CRestoreMark ==
    \E c \in DOMAIN resolving, actor \in Actors :
        LET call == resolving[c]
            marked == MarkRestored(records, call.record.id, actor, clock)
        IN  /\ call.op = "restoreLatest" /\ call.pc = "mark"
            /\ records' = marked.records
            /\ clock' = clock + 1
            /\ resolving' = [resolving EXCEPT ![c] =
                  IF marked.ok THEN Done(call, NoErr)
                  ELSE [call EXCEPT !.pc = "compensate"]]
            /\ UNCHANGED <<pvVars, fs, trashArea, nextUuid, callVars, batch, jobVars>>

\* RestoreLatest: the move back into the trash area, its error discarded
CRestoreCompensate ==
    \E c \in DOMAIN resolving :
        LET call == resolving[c]
        IN  /\ call.op = "restoreLatest" /\ call.pc = "compensate"
            /\ IF Exists(fs, call.path)
               THEN /\ fs' = MoveToTrash(St, call.path, call.record.trashName).fs
                    /\ trashArea' = MoveToTrash(St, call.path, call.record.trashName).trash
               ELSE UNCHANGED <<fs, trashArea>>
            /\ resolving' = [resolving EXCEPT ![c] = Done(call, "NOT_FOUND")]
            /\ UNCHANGED <<pvVars, records, nextUuid, clock, callVars, batch, jobVars>>

\* PermanentDelete: TrashRepository.FindByID
CPermanentFind ==
    /\ Len(resolving) < MaxTrashCalls
    /\ \E id \in DOMAIN records \cup {0} :
          LET call == [TrashCall("permanentDelete", "remove") EXCEPT !.id = id]
          IN  resolving' = Append(resolving,
                  IF id \notin ActiveIds(records) THEN Done(call, "NOT_FOUND")
                  ELSE [call EXCEPT !.record = records[id]])
    /\ UNCHANGED <<pvVars, engVars, callVars, batch, jobVars>>

\* PermanentDelete: os.RemoveAll of the trash entry, which passes when
\* there is none
CPermanentRemove ==
    \E c \in DOMAIN resolving :
        LET call == resolving[c]
        IN  /\ call.op = "permanentDelete" /\ call.pc = "remove"
            /\ trashArea' = RemoveTrashEntry(trashArea, call.record.trashName)
            /\ resolving' = [resolving EXCEPT ![c].pc = "delete"]
            /\ UNCHANGED <<pvVars, fs, records, nextUuid, clock, callVars, batch, jobVars>>

\* PermanentDelete: TrashRepository.Delete, by the id alone
CPermanentDelete ==
    \E c \in DOMAIN resolving :
        LET call == resolving[c]
        IN  /\ call.op = "permanentDelete" /\ call.pc = "delete"
            /\ records' = RepoDelete(records, call.id)
            /\ resolving' = [resolving EXCEPT ![c] =
                  IF call.id \in DOMAIN records THEN Done(call, NoErr)
                  ELSE Done(call, "NOT_FOUND")]
            /\ UNCHANGED <<pvVars, fs, trashArea, nextUuid, clock, callVars, batch, jobVars>>

\* EmptyTrash: TrashRepository.List(false)
CEmptyList ==
    /\ Len(resolving) < MaxTrashCalls
    /\ resolving' = Append(resolving,
          [TrashCall("emptyTrash", "remove") EXCEPT
              !.listed = List(records, FALSE), !.at = 1])
    /\ UNCHANGED <<pvVars, engVars, callVars, batch, jobVars>>

\* EmptyTrash: one pass of the loop, os.RemoveAll of the entry of a listed
\* record; fails: the removal of an entry that is there fails, and the
\* loop goes on to the next record without counting
CEmptyRemove ==
    \E c \in DOMAIN resolving, fails \in BOOLEAN :
        LET call == resolving[c]
            name == call.listed[call.at].trashName
        IN  /\ call.op = "emptyTrash" /\ call.pc = "remove"
            /\ call.at <= Len(call.listed)
            /\ fails => name \in DOMAIN trashArea
            /\ trashArea' = IF fails THEN trashArea ELSE RemoveTrashEntry(trashArea, name)
            /\ resolving' = [resolving EXCEPT ![c] =
                  [call EXCEPT !.at = @ + 1,
                               !.count = IF fails THEN @ ELSE @ + 1,
                               !.fault = @ \/ fails]]
            /\ UNCHANGED <<pvVars, fs, records, nextUuid, clock, callVars, batch, jobVars>>

\* EmptyTrash: TrashRepository.DeleteAllNotRestored after the loop, and the
\* return of the count; deleted: the rows the statement deleted
CEmptyDeleteAll ==
    \E c \in DOMAIN resolving :
        LET call == resolving[c]
        IN  /\ call.op = "emptyTrash" /\ call.pc = "remove"
            /\ call.at > Len(call.listed)
            /\ records' = DeleteAllNotRestored(records)
            /\ resolving' = [resolving EXCEPT ![c] =
                  [Done(call, NoErr) EXCEPT
                      !.deleted = {records[i] : i \in ActiveIds(records)}]]
            /\ UNCHANGED <<pvVars, fs, trashArea, nextUuid, clock, callVars, batch, jobVars>>

TrashRaceNext ==
    \/ CSoftDeleteStat
    \/ CSoftDeleteMove
    \/ CSoftDeleteCreate
    \/ CRestoreFind
    \/ CRestoreStat
    \/ CRestoreMove
    \/ CRestoreMark
    \/ CRestoreCompensate
    \/ CPermanentFind
    \/ CPermanentRemove
    \/ CPermanentDelete
    \/ CEmptyList
    \/ CEmptyRemove
    \/ CEmptyDeleteAll

SpecTrashRace == TrashInit /\ [][TrashRaceNext]_vars

AllReturned == resolving # <<>> /\ \A c \in DOMAIN resolving : resolving[c].pc = "done"

NoFaults == \A c \in DOMAIN resolving : ~resolving[c].fault

\* the non-restored records naming the trash entry n
RecordsOf(n) == {i \in ActiveIds(records) : records[i].trashName = n}

\* every trash entry is named by exactly one non-restored record and the
\* trash entry of every non-restored record is there
OneToOne ==
    /\ \A n \in DOMAIN trashArea : Cardinality(RecordsOf(n)) = 1
    /\ \A i \in ActiveIds(records) : records[i].trashName \in DOMAIN trashArea

\* what a call reported as restored is at its path, or a softDelete has
\* moved it into the trash area again, where a non-restored record names it
RestoredInPlace ==
    \A c \in DOMAIN resolving :
       (resolving[c].op = "restoreLatest" /\ resolving[c].err = NoErr)
           => \/ Exists(fs, resolving[c].path)
              \/ \E i \in ActiveIds(records) :
                    /\ records[i].originalPath = resolving[c].path
                    /\ records[i].trashName \in DOMAIN trashArea

\* C34: after any interleaving of concurrent softDelete, restoreLatest,
\* permanentDelete and emptyTrash calls has run to completion without
\* faults, trash entries and non-restored records are in one-to-one
\* correspondence, and no content reported as restored is missing from its
\* original location
TrashConsistency == (AllReturned /\ NoFaults) => (OneToOne /\ RestoredInPlace)

\* C34 for the second part alone
RestoredStays == (AllReturned /\ NoFaults) => RestoredInPlace

\* a restoreLatest and a permanentDelete of the same record have both
\* returned, the delete with success: the restore moved the file out,
\* found no row to mark and moved the file back into the trash area,
\* where no record names it
OrphanAfterRestore ==
    /\ AllReturned
    /\ NoFaults
    /\ \E c, k \in DOMAIN resolving :
          /\ resolving[c].op = "restoreLatest"
          /\ resolving[c].err = "NOT_FOUND"
          /\ resolving[c].record # NoRecord
          /\ resolving[k].op = "permanentDelete"
          /\ resolving[k].err = NoErr
          /\ resolving[k].id = resolving[c].record.id
          /\ resolving[c].record.trashName \in DOMAIN trashArea
          /\ resolving[c].record.id \notin DOMAIN records
          /\ ~Exists(fs, resolving[c].path)

\* the step is the return of an emptyTrash call: every record it deleted
\* had its trash entry removed, and the count is the number of the records
\* deleted
EmptyStep ==
    \A c \in DOMAIN resolving :
       (/\ resolving[c].op = "emptyTrash"
        /\ resolving[c].pc = "remove"
        /\ resolving'[c].pc = "done")
           => /\ \A r \in resolving'[c].deleted : r.trashName \notin DOMAIN trashArea'
              /\ resolving'[c].count = Cardinality(resolving'[c].deleted)

\* C35: emptyTrash deletes a TrashRecord only if that record's trash-area
\* bytes were removed, so that after it returns no trash entry is left
\* without a record, also when the removal of an entry fails or a
\* softDelete completes while emptyTrash runs, and the returned count is
\* the number of records emptyTrash deleted
EmptyTrashExact == [][EmptyStep]_vars

\* C35 for the calls none of whose removals failed and during which the
\* table of records stayed as listed
EmptyUndisturbedStep ==
    \A c \in DOMAIN resolving :
       (/\ resolving[c].op = "emptyTrash"
        /\ resolving[c].pc = "remove"
        /\ resolving'[c].pc = "done"
        /\ ~resolving[c].fault
        /\ resolving[c].listed = List(records, FALSE))
           => /\ \A r \in resolving'[c].deleted : r.trashName \notin DOMAIN trashArea'
              /\ resolving'[c].count = Cardinality(resolving'[c].deleted)

EmptyTrashExactUndisturbed == [][EmptyUndisturbedStep]_vars

\* emptyTrash returned 0 and deleted the record of an entry whose removal
\* had failed: the entry is left in the trash area without a record
EmptiedRecordOnly ==
    \E c \in DOMAIN resolving :
       /\ resolving[c].op = "emptyTrash"
       /\ resolving[c].pc = "done"
       /\ resolving[c].fault
       /\ resolving[c].count = 0
       /\ Len(resolving[c].listed) = 1
       /\ resolving[c].deleted # {}
       /\ \A r \in resolving[c].deleted :
             r.trashName \in DOMAIN trashArea /\ r.id \notin DOMAIN records

\* emptyTrash listed no record, a softDelete completed, and emptyTrash
\* deleted the new record, whose entry stays in the trash area
EmptiedNewRecord ==
    \E c \in DOMAIN resolving :
       /\ resolving[c].op = "emptyTrash"
       /\ resolving[c].pc = "done"
       /\ ~resolving[c].fault
       /\ resolving[c].listed = <<>>
       /\ resolving[c].count = 0
       /\ \E r \in resolving[c].deleted :
             r.trashName \in DOMAIN trashArea /\ r.id \notin DOMAIN records

\* the stored request with the policy the job's row reports
AsReported(j) == [requests[j] EXCEPT !.policy = jobs[j].policy]

\* the worker stands before the engine call of a job of one of operations
Executing(operations) ==
    /\ worker.pc = "execute"
    /\ jobs[worker.job].operation \in operations

\* C38: a job executes with the conflict policy its JobData row reports:
\* the engine call of a copy, move or decompress job does what it does
\* when given the policy of the row, and a decompress job whose row
\* reports overwrite extracts without the pre-flight scan and does not end
\* with a Conflict failure
PolicyAsReported ==
    /\ Executing({"copy", "move", "decompress"})
          => RunRequest(St, jobs[worker.job].operation, requests[worker.job])
                 = RunRequest(St, jobs[worker.job].operation, AsReported(worker.job))
    /\ \A j \in 1..Len(jobs) :
          (/\ jobs[j].operation = "decompress"
           /\ jobs[j].policy = "overwrite"
           /\ jobs[j].status \in Terminal)
              => \A k \in 1..Len(jobs[j].items) : jobs[j].items[k].reason # "CONFLICT"

\* C38 for the copy and move jobs
PolicyAsReportedOfBatch ==
    Executing({"copy", "move"})
        => RunRequest(St, jobs[worker.job].operation, requests[worker.job])
               = RunRequest(St, jobs[worker.job].operation, AsReported(worker.job))

\* a decompress job whose row reports the policy overwrite has failed with
\* a conflict, and the file in the destination is as it was
ConflictUnderOverwrite ==
    \E j \in 1..Len(jobs) :
       /\ jobs[j].operation = "decompress"
       /\ jobs[j].policy = "overwrite"
       /\ jobs[j].status = "failed"
       /\ Len(jobs[j].items) = 1
       /\ jobs[j].items[1].reason = "CONFLICT"
       /\ Exists(fs, <<<<"d">>, <<"a">>>>)
       /\ fs[<<<<"d">>, <<"a">>>>] = "y"

\* a move job submitted with the policy SKIP has run as its row reports:
\* the item is skipped
SkippedAsReported ==
    \E j \in 1..Len(jobs) :
       /\ jobs[j].operation = "move"
       /\ jobs[j].policy = "skip"
       /\ jobs[j].status = "failed"
       /\ Len(jobs[j].items) = 1
       /\ jobs[j].items[1].status = "skipped"

\* the failures of a batch the ConflictResolver answered with skip: the
\* one reason Move and Copy give for it
SkipSignalled(item) == item.reason = "skipped: target already exists"

\* the copy and move jobs that have ended
BatchJobsEnded ==
    {j \in 1..Len(jobs) :
        jobs[j].operation \in {"copy", "move"} /\ jobs[j].status \in Terminal}

\* C39: in a copy or move job an item has the status skipped exactly when
\* the ConflictResolver signalled skip for it, which is under the policy
\* skip only; an item that failed for another reason has the status
\* failed; and failedItems counts the items of both kinds
SkippedClassified ==
    \A j \in BatchJobsEnded :
       /\ \A k \in 1..Len(jobs[j].items) :
             /\ jobs[j].items[k].status \in {"success", "skipped", "failed"}
             /\ (jobs[j].items[k].status = "skipped") <=> SkipSignalled(jobs[j].items[k])
             /\ jobs[j].items[k].status = "skipped" => jobs[j].policy = "skip"
       /\ jobs[j].failed
             = Cardinality({k \in 1..Len(jobs[j].items) :
                               jobs[j].items[k].status \in {"skipped", "failed"}})

\* C39 for the items whose source has no name with the word skipped
SkippedClassifiedPlainNames ==
    \A j \in BatchJobsEnded :
       /\ \A k \in 1..Len(jobs[j].items) :
             ~HoldsSkipped(jobs[j].items[k].from)
                => /\ (jobs[j].items[k].status = "skipped")
                         <=> SkipSignalled(jobs[j].items[k])
                   /\ jobs[j].items[k].status = "skipped" => jobs[j].policy = "skip"
       /\ jobs[j].failed
             = Cardinality({k \in 1..Len(jobs[j].items) :
                               jobs[j].items[k].status \in {"skipped", "failed"}})

\* a move job with the policy rename has ended with its one item skipped:
\* the source was missing, and the error of the rename quotes its name
MissingShownAsSkipped ==
    \E j \in BatchJobsEnded :
       /\ jobs[j].policy = "rename"
       /\ Len(jobs[j].items) = 1
       /\ jobs[j].items[1].status = "skipped"
       /\ jobs[j].items[1].reason = "rename"
       /\ jobs[j].failed = 1

\* the resolver signalled skip for the item of a job, and the item has the
\* status skipped and is counted as failed
SkippedBySignal ==
    \E j \in BatchJobsEnded :
       /\ jobs[j].policy = "skip"
       /\ jobs[j].failed = 1
       /\ \E k \in 1..Len(jobs[j].items) :
             /\ jobs[j].items[k].status = "skipped"
             /\ SkipSignalled(jobs[j].items[k])

-----------------------------------------------------------------------------
(* Copy with copyRecursive taken one call at a time: resolving is the      *)
(* stack of its calls, the innermost last.                                  *)

\* the number of Copy calls of one run, made one after the other
MaxCopies == 2

\* the deepest stack explored; a call refused for the length of its path
\* is reached before it
StackCap == PathMax + 2

CopySources == {<<<<"d">>>>, <<<<"d">>, <<"a">>>>}

CopyDestinations == {<<<<"d">>>>, <<<<"d">>, <<"b">>>>, <<<<"b">>>>}

CopyPolicies == {"rename", "overwrite"}

\* calls counts the calls of copyRecursive of one Copy; it is no data of
\* the program
NoCopy == [op |-> "none", pc |-> "idle", err |-> NoErr, source |-> <<>>,
           target |-> <<>>, calls |-> 0]

\* a call of copyRecursive at its first line
Frame(source, target) ==
    [source |-> source, target |-> target, pc |-> "enter", names |-> <<>>]

\* a file system that takes a path of any length
NameNeverTooLong(source, target) == FALSE

\* stat(2) and mkdir(2) refuse a path longer than the system takes
NameTooLong(source, target) == Len(source) > PathMax \/ Len(target) > PathMax

CopyReturned(err) == [last EXCEPT !.pc = "returned", !.err = err]

\* Copy of one source up to its call of copyRecursive
KBegin ==
    /\ resolving = <<>>
    /\ last.pc # "running"
    /\ opCount < MaxCopies
    /\ opCount' = opCount + 1
    /\ \E source \in CopySources, destination \in CopyDestinations,
          policy \in CopyPolicies :
          LET made == StorageMkdirAllFs(fs, destination)
              target == normalizeAPIPath(destination \o <<Base(source)>>)
              resolved == resolveConflictTarget(made.fs, target, policy)
              call == [NoCopy EXCEPT !.op = "copy", !.source = source,
                                     !.target = target]
              fail(e, g) ==
                  /\ fs' = g
                  /\ last' = [call EXCEPT !.pc = "returned", !.err = e]
                  /\ UNCHANGED resolving
          IN  IF made.err # NoErr THEN fail(made.err, fs)
              ELSE IF ~Exists(made.fs, source)
              THEN fail("no such file or directory", made.fs)
              ELSE IF resolved.err # NoErr THEN fail(resolved.err, resolved.fs)
              ELSE /\ fs' = resolved.fs
                   /\ last' = [call EXCEPT !.pc = "running", !.target = resolved.path,
                                          !.calls = 1]
                   /\ resolving' = <<Frame(source, resolved.path)>>
    /\ UNCHANGED <<pvVars, trashArea, records, nextUuid, clock, tally, batch, jobVars>>

\* the return of the innermost call without error: the caller goes on with
\* its loop, and Copy returns when it was the outermost
KReturn(g) ==
    /\ fs' = g
    /\ resolving' = SubSeq(resolving, 1, Len(resolving) - 1)
    /\ last' = IF Len(resolving) = 1 THEN CopyReturned(NoErr) ELSE last

\* the return of an error: every caller returns it at once
KFail(g) ==
    /\ fs' = g
    /\ resolving' = <<>>
    /\ last' = CopyReturned("copy")

\* copyRecursive from its first line to the loop over the entries, or for
\* a file to its end
KEnter ==
    /\ resolving # <<>>
    /\ resolving[Len(resolving)].pc = "enter"
    /\ LET top == resolving[Len(resolving)]
           made == OsMkdirAll(fs, top.target)
           above == OsMkdirAll(fs, Parent(top.target))
       IN  IF NameTooLong(top.source, top.target) \/ ~Exists(fs, top.source)
           THEN KFail(fs)
           ELSE IF fs[top.source] = "dir"
           THEN IF ~made.ok THEN KFail(fs)
                ELSE /\ fs' = made.fs
                     /\ resolving' =
                           [resolving EXCEPT ![Len(resolving)] =
                               [top EXCEPT !.pc = "loop",
                                           !.names = ReadDirNames(made.fs, top.source)]]
                     /\ last' = last
           ELSE IF ~above.ok THEN KFail(fs)
           ELSE IF IsDirAt(above.fs, top.target) THEN KFail(above.fs)
           ELSE KReturn([q \in DOMAIN above.fs \cup {top.target} |->
                            IF q = top.target
                            THEN (IF top.source = top.target THEN "" ELSE above.fs[top.source])
                            ELSE above.fs[q]])
    /\ UNCHANGED <<pvVars, trashArea, records, nextUuid, clock, opCount, tally, batch,
                   jobVars>>

\* one pass of the loop over the entries: the call for the next entry, or
\* the return after the last
KLoop ==
    /\ resolving # <<>>
    /\ resolving[Len(resolving)].pc = "loop"
    /\ LET top == resolving[Len(resolving)]
       IN  IF top.names = <<>> THEN KReturn(fs)
           ELSE /\ Len(resolving) < StackCap
                /\ fs' = fs
                /\ last' = [last EXCEPT !.calls = @ + 1]
                /\ resolving' =
                      [resolving EXCEPT ![Len(resolving)] =
                          [top EXCEPT !.names = Tail(@)]]
                      \o <<Frame(top.source \o <<Head(top.names)>>,
                                 top.target \o <<Head(top.names)>>)>>
    /\ UNCHANGED <<pvVars, trashArea, records, nextUuid, clock, opCount, tally, batch,
                   jobVars>>

CopyNext == KBegin \/ KEnter \/ KLoop

CopyInit ==
    /\ pvPc = "idle"
    /\ pvIn = <<>>
    /\ pvOut = NoResolve
    /\ pvTouched = {}
    /\ fs = SeedFs
    /\ trashArea = <<>>
    /\ records = <<>>
    /\ nextUuid = 1
    /\ clock = 1
    /\ last = NoCopy
    /\ opCount = 0
    /\ tally = NoTally
    /\ batch = NoBatchCall
    /\ jobs = <<>>
    /\ requests = <<>>
    /\ queue = <<>>
    /\ worker = IdleWorker
    /\ creating = {}
    /\ channels = <<>>
    /\ subscribers = <<>>
    /\ ghost = NoGhost
    /\ resolving = <<>>

\* the goroutine that runs Copy is scheduled again and again, and the
\* worker takes the next call when one has returned; at most one of the
\* three steps is enabled at a time
SpecCopy == CopyInit /\ [][CopyNext]_vars /\ WF_vars(CopyNext)

\* C40: Copy terminates: every call of Copy that has begun returns, the
\* calls whose destination is the source directory or lies below it
\* included, and so every call waiting behind it is made and returns: in
\* the end all the calls of the run have been made and the last has
\* returned
CopyTerminates == <>[](opCount = MaxCopies /\ last.pc = "returned")

\* a copy of the directory /d into itself has returned: it went down
\* through the directories it made itself until the path was refused, and
\* failed
ReturnedAtPathLimit ==
    /\ last.pc = "returned"
    /\ last.source = <<<<"d">>>>
    /\ IsUnder(last.target, last.source)
    /\ last.err = "copy"
    /\ last.calls > Cardinality({q \in DOMAIN SeedFs : IsUnder(q, last.source)})
    /\ \E q \in DOMAIN fs : Len(q) = PathMax /\ IsUnder(q, last.source)

=============================================================================
